---------------------------- MODULE Spec2Model ----------------------------
(***************************************************************************)
(* A model of the binary codec of xrpl-rust: the length-prefix codec, the  *)
(* byte accumulator (BinarySerializer), the byte cursor (BinaryParser) and *)
(* the canonical object serializer (STObject::try_from_value) with the     *)
(* encode / encode_for_signing entry points.                               *)
(*                                                                         *)
(* Byte buffers are sequences of integers in 0..255.  A call that panics   *)
(* in Rust (a slice index out of range, unwrap on Err, todo!()) ends with  *)
(* kind "panic"; a call that returns Err(..) ends with kind "err".         *)
(***************************************************************************)
EXTENDS Integers, Sequences, FiniteSets, TLC

VARIABLES
    harness,     \* which driver is running: "prefix", "roundtrip", "parser", "object"
    pc,          \* the driver's position
    serializer,  \* BinarySerializer: the Vec<u8> being written
    parser,      \* BinaryParser.0: the bytes that remain to be read
    arg,         \* the input the driver drew for the call(s) it makes
    calls,       \* the number of calls made on the parser
    last         \* the outcome of the last call

vars == <<harness, pc, serializer, parser, arg, calls, last>>

----------------------------------------------------------------------------
(* Bounds of the model.                                                    *)

\* The round trip writes every content length 0..MaxDenseLen, and the
\* lengths around every threshold of the prefix (BoundaryLens).
MaxDenseLen == 200
\* Parser buffers are drawn from sequences of at most MaxParserLen bytes.
MaxParserLen == 3
\* skip_bytes(n) and read(n) are called with n in 0..MaxCount.
MaxCount == 4
\* The parser driver makes at most MaxOps calls on one parser.
MaxOps == 2
MaxFields == 3
MaxAmountTail == 0

----------------------------------------------------------------------------
(* Constants of core/binarycodec/utils.rs, with the values the comments of *)
(* binary_wrappers.rs document (lines 43-45, 536 and 546).                 *)

MAX_SINGLE_BYTE_LENGTH == 192
MAX_DOUBLE_BYTE_LENGTH == 12481
MAX_LENGTH_VALUE == 918744
MAX_SECOND_BYTE_VALUE == 240
MAX_BYTE_VALUE == 256
MAX_DOUBLE_BYTE_VALUE == 65536
\* The last first byte read_length_prefix accepts (the literal 254).
MAX_FIRST_BYTE_VALUE == 254

Byte == 0..255

----------------------------------------------------------------------------
(* Outcomes of a call.                                                     *)

Ok(val, bytes) == [kind |-> "ok", val |-> val, bytes |-> bytes, err |-> ""]
Err(e) == [kind |-> "err", val |-> -1, bytes |-> <<>>, err |-> e]
Panic(e) == [kind |-> "panic", val |-> -1, bytes |-> <<>>, err |-> e]

Drop(s, n) == SubSeq(s, n + 1, Len(s))
Take(s, n) == SubSeq(s, 1, n)

\* usize -> u8 by try_into(): fails above 255.
TryIntoU8(x) == IF x <= 255 THEN Ok(x, <<>>) ELSE Err("TryFromIntError")

----------------------------------------------------------------------------
(* _encode_variable_length_prefix                                          *)

EncodePrefixTwoByteBoundaryInclusive(length) ==
    IF length <= MAX_SINGLE_BYTE_LENGTH THEN Ok(0, <<length>>)
    ELSE IF length <= MAX_DOUBLE_BYTE_LENGTH THEN
        LET b_length == length - (MAX_SINGLE_BYTE_LENGTH + 1)
            val_a == TryIntoU8((b_length \div 256) + (MAX_SINGLE_BYTE_LENGTH + 1))
            val_b == TryIntoU8(b_length % 256)
        IN  IF val_a.kind = "err" THEN val_a
            ELSE IF val_b.kind = "err" THEN val_b
            ELSE Ok(0, <<val_a.val, val_b.val>>)
    ELSE IF length <= MAX_LENGTH_VALUE THEN
        LET b_length == length - MAX_DOUBLE_BYTE_LENGTH
            val_a == TryIntoU8((MAX_SECOND_BYTE_VALUE + 1) + (b_length \div 65536))
            val_b == TryIntoU8((b_length \div 256) % 256)
            val_c == TryIntoU8(b_length % 256)
        IN  IF val_a.kind = "err" THEN val_a
            ELSE IF val_b.kind = "err" THEN val_b
            ELSE IF val_c.kind = "err" THEN val_c
            ELSE Ok(0, <<val_a.val, val_b.val, val_c.val>>)
    ELSE Err("InvalidVariableLengthTooLarge")

\* `>> 8` is \div 256, `>> 16` is \div 65536, `& 0xFF` is % 256.
EncodeVariableLengthPrefix(length) ==
    IF length <= MAX_SINGLE_BYTE_LENGTH THEN Ok(0, <<length>>)
    ELSE IF length < MAX_DOUBLE_BYTE_LENGTH THEN
        LET b_length == length - (MAX_SINGLE_BYTE_LENGTH + 1)
            val_a == TryIntoU8((b_length \div 256) + (MAX_SINGLE_BYTE_LENGTH + 1))
            val_b == TryIntoU8(b_length % 256)
        IN  IF val_a.kind = "err" THEN val_a
            ELSE IF val_b.kind = "err" THEN val_b
            ELSE Ok(0, <<val_a.val, val_b.val>>)
    ELSE IF length <= MAX_LENGTH_VALUE THEN
        LET b_length == length - MAX_DOUBLE_BYTE_LENGTH
            val_a == TryIntoU8((MAX_SECOND_BYTE_VALUE + 1) + (b_length \div 65536))
            val_b == TryIntoU8((b_length \div 256) % 256)
            val_c == TryIntoU8(b_length % 256)
        IN  IF val_a.kind = "err" THEN val_a
            ELSE IF val_b.kind = "err" THEN val_b
            ELSE IF val_c.kind = "err" THEN val_c
            ELSE Ok(0, <<val_a.val, val_b.val, val_c.val>>)
    ELSE Err("InvalidVariableLengthTooLarge")

----------------------------------------------------------------------------
(* impl Serialization for BinarySerializer.  Each operator returns the     *)
(* outcome with the serializer's new contents in .bytes.                   *)

SerAppendInFront(ser, bytes) == Ok(0, bytes \o ser)

SerAppend(ser, bytes) == Ok(0, ser \o bytes)

WriteLengthEncodedAlwaysValue(ser, value, encode_value) ==
    LET length_prefix == EncodeVariableLengthPrefix(Len(value))
    IN  IF length_prefix.kind # "ok"
        THEN Panic("unwrap: " \o length_prefix.err)
        ELSE Ok(0, (ser \o length_prefix.bytes) \o value)

SerWriteLengthEncoded(ser, value, encode_value) ==
    LET byte_object == IF encode_value THEN value ELSE <<>>
        length_prefix == EncodeVariableLengthPrefix(Len(byte_object))
    IN  IF length_prefix.kind # "ok"
        THEN Panic("unwrap: " \o length_prefix.err)
        ELSE Ok(0, (ser \o length_prefix.bytes) \o byte_object)

----------------------------------------------------------------------------
(* impl Parser for BinaryParser.  Each operator returns the outcome with   *)
(* the parser's remaining bytes in .rest.                                  *)

POk(val, bytes, rest) ==
    [kind |-> "ok", val |-> val, bytes |-> bytes, err |-> "", rest |-> rest]
PErr(e, rest) ==
    [kind |-> "err", val |-> -1, bytes |-> <<>>, err |-> e, rest |-> rest]
PPanic(e, rest) ==
    [kind |-> "panic", val |-> -1, bytes |-> <<>>, err |-> e, rest |-> rest]

\* Option<[u8; 1]>: val is the byte, -1 for None.
ParserPeek(buf) ==
    IF Len(buf) # 0 THEN POk(buf[1], <<buf[1]>>, buf) ELSE POk(-1, <<>>, buf)

SkipBytesOffByOne(buf, n) ==
    IF n >= Len(buf) THEN PErr("UnexpectedParserSkipOverflow", buf)
    ELSE POk(0, <<>>, Drop(buf, n))

SkipBytesFromEnd(buf, n) ==
    IF n > Len(buf) THEN PErr("UnexpectedParserSkipOverflow", buf)
    ELSE POk(0, <<>>, Take(buf, Len(buf) - n))

ParserSkipBytes(buf, n) ==
    IF n > Len(buf) THEN PErr("UnexpectedParserSkipOverflow", buf)
    ELSE POk(0, <<>>, Drop(buf, n))

\* self.0[..n] is evaluated first and panics when n exceeds the length.
ParserRead(buf, n) ==
    IF n > Len(buf) THEN PPanic("range end index out of range for slice", buf)
    ELSE LET first_n_bytes == Take(buf, n)
             skipped == ParserSkipBytes(buf, n)
         IN  IF skipped.kind # "ok" THEN skipped
             ELSE POk(0, first_n_bytes, skipped.rest)

RECURSIVE FromBeBytes(_)
FromBeBytes(bytes) ==
    IF bytes = <<>> THEN 0
    ELSE FromBeBytes(Take(bytes, Len(bytes) - 1)) * 256 + bytes[Len(bytes)]

ParserReadUint(buf, width) ==
    LET result == ParserRead(buf, width)
    IN  IF result.kind # "ok" THEN result
        ELSE IF Len(result.bytes) # width
        THEN PErr("InvalidReadFromBytesValue", result.rest)
        ELSE POk(FromBeBytes(result.bytes), result.bytes, result.rest)

ParserReadUint8(buf) == ParserReadUint(buf, 1)
ParserReadUint16(buf) == ParserReadUint(buf, 2)

\* A u32 does not fit the model checker's integers: the value read is kept
\* as the pair of its 16-bit halves, <<high, low>>.
ParserReadUint32(buf) ==
    LET result == ParserRead(buf, 4)
    IN  IF result.kind # "ok" THEN result
        ELSE IF Len(result.bytes) # 4
        THEN PErr("InvalidReadFromBytesValue", result.rest)
        ELSE POk(<<FromBeBytes(Take(result.bytes, 2)),
                   FromBeBytes(Drop(result.bytes, 2))>>,
                 result.bytes, result.rest)

\* custom_end is -1 for None.
ParserIsEnd(buf, custom_end) ==
    IF custom_end # -1 THEN Len(buf) <= custom_end ELSE Len(buf) = 0

ReadLengthPrefixNoRangeCheck(buf) ==
    LET r1 == ParserReadUint8(buf)
        byte1 == r1.val
    IN  IF r1.kind # "ok" THEN r1
        ELSE IF byte1 <= MAX_SINGLE_BYTE_LENGTH THEN POk(byte1, <<byte1>>, r1.rest)
        ELSE IF byte1 <= MAX_SECOND_BYTE_VALUE THEN
            LET r2 == ParserReadUint8(r1.rest)
            IN  IF r2.kind # "ok" THEN r2
                ELSE POk((MAX_SINGLE_BYTE_LENGTH + 1)
                           + ((byte1 - (MAX_SINGLE_BYTE_LENGTH + 1)) * MAX_BYTE_VALUE)
                           + r2.val,
                         <<byte1, r2.val>>, r2.rest)
        ELSE
            LET r2 == ParserReadUint8(r1.rest)
                r3 == ParserReadUint8(r2.rest)
            IN  IF r2.kind # "ok" THEN r2
                ELSE IF r3.kind # "ok" THEN r3
                ELSE POk(MAX_DOUBLE_BYTE_LENGTH
                           + ((byte1 - (MAX_SECOND_BYTE_VALUE + 1)) * MAX_DOUBLE_BYTE_VALUE)
                           + (r2.val * MAX_BYTE_VALUE)
                           + r3.val,
                         <<byte1, r2.val, r3.val>>, r3.rest)

\* The two-byte formula with the base 192 in place of 193.
ReadLengthPrefixTwoByteBase(buf) ==
    LET r1 == ParserReadUint8(buf)
        byte1 == r1.val
    IN  IF r1.kind # "ok" THEN r1
        ELSE IF byte1 <= MAX_SINGLE_BYTE_LENGTH THEN POk(byte1, <<byte1>>, r1.rest)
        ELSE IF byte1 <= MAX_SECOND_BYTE_VALUE THEN
            LET r2 == ParserReadUint8(r1.rest)
            IN  IF r2.kind # "ok" THEN r2
                ELSE POk(MAX_SINGLE_BYTE_LENGTH
                           + ((byte1 - (MAX_SINGLE_BYTE_LENGTH + 1)) * MAX_BYTE_VALUE)
                           + r2.val,
                         <<byte1, r2.val>>, r2.rest)
        ELSE IF byte1 <= MAX_FIRST_BYTE_VALUE THEN
            LET r2 == ParserReadUint8(r1.rest)
                r3 == ParserReadUint8(r2.rest)
            IN  IF r2.kind # "ok" THEN r2
                ELSE IF r3.kind # "ok" THEN r3
                ELSE POk(MAX_DOUBLE_BYTE_LENGTH
                           + ((byte1 - (MAX_SECOND_BYTE_VALUE + 1)) * MAX_DOUBLE_BYTE_VALUE)
                           + (r2.val * MAX_BYTE_VALUE)
                           + r3.val,
                         <<byte1, r2.val, r3.val>>, r3.rest)
        ELSE PErr("UnexpectedLengthPrefixRange", r1.rest)

\* .bytes holds the prefix bytes that were consumed.
ParserReadLengthPrefix(buf) ==
    LET r1 == ParserReadUint8(buf)
        byte1 == r1.val
    IN  IF r1.kind # "ok" THEN r1
        ELSE IF byte1 <= MAX_SINGLE_BYTE_LENGTH THEN POk(byte1, <<byte1>>, r1.rest)
        ELSE IF byte1 <= MAX_SECOND_BYTE_VALUE THEN
            LET r2 == ParserReadUint8(r1.rest)
            IN  IF r2.kind # "ok" THEN r2
                ELSE POk((MAX_SINGLE_BYTE_LENGTH + 1)
                           + ((byte1 - (MAX_SINGLE_BYTE_LENGTH + 1)) * MAX_BYTE_VALUE)
                           + r2.val,
                         <<byte1, r2.val>>, r2.rest)
        ELSE IF byte1 <= MAX_FIRST_BYTE_VALUE THEN
            LET r2 == ParserReadUint8(r1.rest)
                r3 == ParserReadUint8(r2.rest)
            IN  IF r2.kind # "ok" THEN r2
                ELSE IF r3.kind # "ok" THEN r3
                ELSE POk(MAX_DOUBLE_BYTE_LENGTH
                           + ((byte1 - (MAX_SECOND_BYTE_VALUE + 1)) * MAX_DOUBLE_BYTE_VALUE)
                           + (r2.val * MAX_BYTE_VALUE)
                           + r3.val,
                         <<byte1, r2.val, r3.val>>, r3.rest)
        ELSE PErr("UnexpectedLengthPrefixRange", r1.rest)


\* Parser::read_field_header.  The first byte holds the type code in its
\* high nibble and the field code in its low nibble; a nibble of 0 sends the
\* code to the next byte, which has to be 16 or more.
HOk(type_code, field_code, rest) ==
    [kind |-> "ok", type_code |-> type_code, field_code |-> field_code,
     err |-> "", rest |-> rest]
HFail(kind, e, rest) ==
    [kind |-> kind, type_code |-> -1, field_code |-> -1, err |-> e, rest |-> rest]

ReadFieldHeaderNibblesOnly(buf) ==
    LET r1 == ParserReadUint8(buf)
    IN  IF r1.kind # "ok" THEN HFail(r1.kind, r1.err, r1.rest)
        ELSE HOk(r1.val \div 16, r1.val % 16, r1.rest)

ReadFieldHeaderRejectsZeroOnly(buf) ==
    LET r1 == ParserReadUint8(buf)
    IN  IF r1.kind # "ok" THEN HFail(r1.kind, r1.err, r1.rest)
        ELSE
        LET field_nibble == r1.val % 16
            type_nibble == r1.val \div 16
            r2 == IF type_nibble = 0 THEN ParserReadUint8(r1.rest)
                  ELSE POk(type_nibble, <<>>, r1.rest)
        IN  IF r2.kind # "ok" THEN HFail(r2.kind, r2.err, r2.rest)
            ELSE IF type_nibble = 0 /\ r2.val = 0
            THEN HFail("err", "UnexpectedTypeCodeRange", r2.rest)
            ELSE
            LET r3 == IF field_nibble = 0 THEN ParserReadUint8(r2.rest)
                      ELSE POk(field_nibble, <<>>, r2.rest)
            IN  IF r3.kind # "ok" THEN HFail(r3.kind, r3.err, r3.rest)
                ELSE IF field_nibble = 0 /\ r3.val = 0
                THEN HFail("err", "UnexpectedFieldCodeRange", r3.rest)
                ELSE HOk(r2.val, r3.val, r3.rest)

ParserReadFieldHeader(buf) ==
    LET r1 == ParserReadUint8(buf)
    IN  IF r1.kind # "ok" THEN HFail(r1.kind, r1.err, r1.rest)
        ELSE
        LET field_nibble == r1.val % 16
            type_nibble == r1.val \div 16
            r2 == IF type_nibble = 0 THEN ParserReadUint8(r1.rest)
                  ELSE POk(type_nibble, <<>>, r1.rest)
        IN  IF r2.kind # "ok" THEN HFail(r2.kind, r2.err, r2.rest)
            ELSE IF type_nibble = 0 /\ (r2.val = 0 \/ r2.val < 16)
            THEN HFail("err", "UnexpectedTypeCodeRange", r2.rest)
            ELSE
            LET r3 == IF field_nibble = 0 THEN ParserReadUint8(r2.rest)
                      ELSE POk(field_nibble, <<>>, r2.rest)
            IN  IF r3.kind # "ok" THEN HFail(r3.kind, r3.err, r3.rest)
                ELSE IF field_nibble = 0 /\ (r3.val = 0 \/ r3.val < 16)
                THEN HFail("err", "UnexpectedFieldCodeRange", r3.rest)
                ELSE HOk(r2.val, r3.val, r3.rest)

----------------------------------------------------------------------------
(* Drivers.  `last` records the call that was made: its name, its input,   *)
(* the buffer it was made on and its outcome.                              *)

NoCall == [op |-> "none", in |-> -1, before |-> <<>>, res |-> Ok(0, <<>>)]
Call(op, in, before, res) == [op |-> op, in |-> in, before |-> before, res |-> res]

NoArg == [length |-> 0, value |-> <<>>, encode_value |-> TRUE]

(* ---- the pure function _encode_variable_length_prefix ------------------ *)

PrefixLens == 0..(MAX_LENGTH_VALUE + 1)

InitPrefix ==
    /\ harness = "prefix"
    /\ pc = "start"
    /\ serializer = <<>>
    /\ parser = <<>>
    /\ \E length \in PrefixLens : arg = [NoArg EXCEPT !.length = length]
    /\ calls = 0
    /\ last = NoCall

EncodePrefix ==
    /\ harness = "prefix"
    /\ pc = "start"
    /\ last' = Call("_encode_variable_length_prefix", arg.length, <<>>,
                    EncodeVariableLengthPrefix(arg.length))
    /\ pc' = "done"
    /\ UNCHANGED <<harness, serializer, parser, arg, calls>>

NextPrefix == EncodePrefix

SpecPrefix == InitPrefix /\ [][NextPrefix]_vars

(* ---- write_length_encoded, BinaryParser::from, read_length_prefix ------ *)
(* The steps of test_encode_variable_length_prefix, for more lengths.      *)

\* The lengths of the test, and the lengths on both sides of every
\* threshold: 448 -> [193,255], 449 -> [194,0], 12480 -> [240,255],
\* 12481 -> [241,0,0], 78016 -> [241,255,255], 78017 -> [242,0,0].
TestLens == {100, 1000, 20000}
BoundaryLens ==
    {448, 449, 12479, 12480, 12481, 12482, 78016, 78017,
     MAX_LENGTH_VALUE, MAX_LENGTH_VALUE + 1}
RoundTripLens == (0..MaxDenseLen) \cup TestLens \cup BoundaryLens

\* The test's blob is `length` bytes 0xA2; short blobs are also filled with
\* bytes that could be taken for a prefix.
TestFill == 162
FillBytes(length) == IF length <= MaxDenseLen THEN {TestFill, 0, 255} ELSE {TestFill}
Fill(length, b) == [i \in 1..length |-> b]

InitRoundTrip ==
    /\ harness = "roundtrip"
    /\ pc = "new"
    /\ serializer = <<>>
    /\ parser = <<>>
    /\ \E length \in RoundTripLens, encode_value \in BOOLEAN :
         \E b \in FillBytes(length) :
            arg = [length |-> length, value |-> Fill(length, b),
                   encode_value |-> encode_value]
    /\ calls = 0
    /\ last = NoCall

WriteLengthEncoded ==
    /\ harness = "roundtrip"
    /\ pc = "new"
    /\ LET res == SerWriteLengthEncoded(serializer, arg.value, arg.encode_value)
       IN  /\ last' = Call("write_length_encoded", arg.length, serializer, res)
           /\ serializer' = IF res.kind = "ok" THEN res.bytes ELSE serializer
           /\ pc' = IF res.kind = "ok" THEN "written" ELSE "aborted"
    /\ UNCHANGED <<harness, parser, arg, calls>>

ParserFromSerializer ==
    /\ harness = "roundtrip"
    /\ pc = "written"
    /\ parser' = serializer
    /\ last' = Call("BinaryParser::from", Len(serializer), <<>>, Ok(0, <<>>))
    /\ pc' = "parsing"
    /\ UNCHANGED <<harness, serializer, arg, calls>>

ReadWrittenPrefix ==
    /\ harness = "roundtrip"
    /\ pc = "parsing"
    /\ LET res == ParserReadLengthPrefix(parser)
       IN  /\ last' = Call("read_length_prefix", -1, parser, res)
           /\ parser' = res.rest
           /\ pc' = IF res.kind = "panic" THEN "aborted" ELSE "done"
    /\ UNCHANGED <<harness, serializer, arg, calls>>

NextRoundTrip == WriteLengthEncoded \/ ParserFromSerializer \/ ReadWrittenPrefix

SpecRoundTrip == InitRoundTrip /\ [][NextRoundTrip]_vars

(* ---- calls on a parser over given bytes -------------------------------- *)

\* TEST_HEX of the tests, 00112233445566.
TEST_BYTES == <<0, 17, 34, 51, 68, 85, 102>>
\* Bytes on both sides of the thresholds of the length prefix.
ByteSamples == {0, 17, 193, 241, 255}
SeqsUpTo(S, n) == UNION {[1..k -> S] : k \in 0..n}
ParserBuffers == SeqsUpTo(ByteSamples, MaxParserLen) \cup {TEST_BYTES}

InitParser ==
    /\ harness = "parser"
    /\ pc = "ready"
    /\ serializer = <<>>
    /\ parser \in ParserBuffers
    /\ arg = NoArg
    /\ calls = 0
    /\ last = NoCall

\* A call on the parser: the parser keeps what the call left, and a panic
\* ends the run.
ParserCall(op, in, res) ==
    /\ last' = Call(op, in, parser, res)
    /\ parser' = res.rest
    /\ pc' = IF res.kind = "panic" THEN "aborted" ELSE "ready"
    /\ calls' = calls + 1
    /\ UNCHANGED <<harness, serializer, arg>>

CanCall == harness = "parser" /\ pc = "ready" /\ calls < MaxOps

Peek == CanCall /\ ParserCall("peek", -1, ParserPeek(parser))

SkipBytes == CanCall /\ \E n \in 0..MaxCount :
                 ParserCall("skip_bytes", n, ParserSkipBytes(parser, n))

Read == CanCall /\ \E n \in 0..MaxCount : ParserCall("read", n, ParserRead(parser, n))

ReadUint8 == CanCall /\ ParserCall("read_uint8", -1, ParserReadUint8(parser))

ReadUint16 == CanCall /\ ParserCall("read_uint16", -1, ParserReadUint16(parser))

ReadUint32 == CanCall /\ ParserCall("read_uint32", -1, ParserReadUint32(parser))

IsEnd ==
    CanCall /\ \E custom_end \in -1..MaxCount :
        ParserCall("is_end", custom_end,
                   POk(IF ParserIsEnd(parser, custom_end) THEN 1 ELSE 0, <<>>, parser))

ReadLengthPrefix ==
    CanCall /\ ParserCall("read_length_prefix", -1, ParserReadLengthPrefix(parser))

ReadFieldHeaderOnParser ==
    CanCall /\ ParserCall("read_field_header", -1, ParserReadFieldHeader(parser))

NextParser ==
    \/ Peek
    \/ SkipBytes
    \/ Read
    \/ ReadUint8
    \/ ReadUint16
    \/ ReadUint32
    \/ IsEnd
    \/ ReadLengthPrefix
    \/ ReadFieldHeaderOnParser

SpecParser == InitParser /\ [][NextParser]_vars

----------------------------------------------------------------------------
(* JSON values (serde_json::Value).  An object is the sequence of its      *)
(* (name, value) pairs in the order the map iterates them; names are       *)
(* distinct.  Numbers stay below 2^31.                                     *)

JStr(s) == [kind |-> "str", s |-> s, n |-> 0, o |-> <<>>]
JNum(n) == [kind |-> "num", s |-> "", n |-> n, o |-> <<>>]
JObj(o) == [kind |-> "obj", s |-> "", n |-> 0, o |-> o]
JArr == [kind |-> "arr", s |-> "", n |-> 0, o |-> <<>>]
JNull == [kind |-> "null", s |-> "", n |-> 0, o |-> <<>>]

\* serde_json::Map: get, contains_key, insert (a present key keeps its
\* place and takes the new value), extend.
MapHas(m, k) == \E i \in 1..Len(m) : m[i][1] = k
MapGet(m, k) == m[CHOOSE i \in 1..Len(m) : m[i][1] = k][2]
MapInsert(m, k, v) ==
    IF MapHas(m, k)
    THEN [i \in 1..Len(m) |-> IF m[i][1] = k THEN <<k, v>> ELSE m[i]]
    ELSE Append(m, <<k, v>>)
RECURSIVE MapExtend(_, _)
MapExtend(m, more) ==
    IF more = <<>> THEN m
    ELSE MapExtend(MapInsert(m, more[1][1], more[1][2]), Tail(more))

ACCOUNT == "Account"
SOURCE_TAG == "SourceTag"
DESTINATION == "Destination"
DESTINATION_TAG == "DestinationTag"
UNL_MODIFY_TX_TYPE == <<"0", "0", "6", "6">>
ST_OBJECT == "STObject"
OBJECT_END_MARKER_BYTES == <<225>>
TRANSACTION_SIGNATURE_PREFIX == <<83, 84, 88, 0>>

----------------------------------------------------------------------------
(* hex::encode_upper and hex::decode.  A hex string is the sequence of its *)
(* characters.                                                             *)

HexDigits == <<"0", "1", "2", "3", "4", "5", "6", "7",
               "8", "9", "A", "B", "C", "D", "E", "F">>

HexUpper(bytes) ==
    [i \in 1..(2 * Len(bytes)) |->
        IF i % 2 = 1 THEN HexDigits[(bytes[(i + 1) \div 2] \div 16) + 1]
        ELSE HexDigits[(bytes[i \div 2] % 16) + 1]]

\* n as `width` big-endian bytes (to_be_bytes).
RECURSIVE ToBeBytes(_, _)
ToBeBytes(n, width) ==
    IF width = 0 THEN <<>> ELSE Append(ToBeBytes(n \div 256, width - 1), n % 256)

----------------------------------------------------------------------------
(* The field registry (core/definitions): the fields the model uses, with  *)
(* the codes of the protocol's definitions file.  ordinal is               *)
(* type_code * 65536 + nth.                                                *)

FieldInfo(name, type, type_code, nth, vl, serialized, signing) ==
    [name |-> name, associated_type |-> type, type_code |-> type_code,
     field_code |-> nth, is_vl_encoded |-> vl, is_serialized |-> serialized,
     is_signing |-> signing, ordinal |-> type_code * 65536 + nth]

Registry ==
    { FieldInfo("LedgerEntryType", "UInt16", 1, 1, FALSE, TRUE, TRUE),
      FieldInfo("TransactionType", "UInt16", 1, 2, FALSE, TRUE, TRUE),
      FieldInfo("Flags", "UInt32", 2, 2, FALSE, TRUE, TRUE),
      FieldInfo("SourceTag", "UInt32", 2, 3, FALSE, TRUE, TRUE),
      FieldInfo("Sequence", "UInt32", 2, 4, FALSE, TRUE, TRUE),
      FieldInfo("DestinationTag", "UInt32", 2, 14, FALSE, TRUE, TRUE),
      FieldInfo("LastLedgerSequence", "UInt32", 2, 27, FALSE, TRUE, TRUE),
      FieldInfo("hash", "Hash256", 5, 257, FALSE, FALSE, FALSE),
      FieldInfo("Fee", "Amount", 6, 8, FALSE, TRUE, TRUE),
      FieldInfo("SigningPubKey", "Blob", 7, 3, TRUE, TRUE, TRUE),
      FieldInfo("TxnSignature", "Blob", 7, 4, TRUE, TRUE, FALSE),
      FieldInfo("MemoType", "Blob", 7, 12, TRUE, TRUE, TRUE),
      FieldInfo("MemoData", "Blob", 7, 13, TRUE, TRUE, TRUE),
      FieldInfo("Account", "AccountID", 8, 1, TRUE, TRUE, TRUE),
      FieldInfo("Destination", "AccountID", 8, 3, TRUE, TRUE, TRUE),
      FieldInfo("RegularKey", "AccountID", 8, 8, TRUE, TRUE, TRUE),
      FieldInfo("Memo", "STObject", 14, 10, FALSE, TRUE, TRUE),
      FieldInfo("Signers", "STArray", 15, 3, FALSE, TRUE, FALSE),
      FieldInfo("TransactionResult", "UInt8", 16, 3, FALSE, TRUE, TRUE),
      FieldInfo("UNLModifyDisabling", "UInt8", 16, 17, FALSE, TRUE, TRUE) }

\* get_field_instance: Option<FieldInstance>.
HasFieldInstance(name) == \E f \in Registry : f.name = name
GetFieldInstance(name) == CHOOSE f \in Registry : f.name = name

\* get_transaction_type_code / get_transaction_result_code: found is FALSE
\* for None.
Code(c) == [found |-> TRUE, code |-> c]
NoCode == [found |-> FALSE, code |-> 0]

GetTransactionTypeCode(name) ==
    CASE name = "Payment" -> Code(0)
      [] name = "OfferCreate" -> Code(7)
      [] name = "UNLModify" -> Code(102)
      [] OTHER -> NoCode

GetTransactionResultCode(name) ==
    CASE name = "tesSUCCESS" -> Code(0)
      [] name = "tecCLAIM" -> Code(100)
      [] OTHER -> NoCode

\* The ledger entry types of the definitions file; try_from_value does not
\* consult this table.
GetLedgerEntryTypeCode(name) ==
    CASE name = "AccountRoot" -> Code(97)
      [] name = "Offer" -> Code(111)
      [] OTHER -> NoCode

\* FieldHeader::to_bytes: one byte when both codes are below 16, else the
\* nibble that fits and a full byte for each code of 16 or more.
HeaderToBytes(type_code, field_code) ==
    IF type_code < 16
    THEN IF field_code < 16
         THEN <<type_code * 16 + field_code>>
         ELSE <<type_code * 16, field_code>>
    ELSE IF field_code < 16
         THEN <<field_code, type_code>>
         ELSE <<0, type_code, field_code>>

----------------------------------------------------------------------------
(* Addresses, blobs and amounts: the strings the model uses and what the   *)
(* address codec, hex::decode and the decimal parser make of them.         *)

\* raD5qJMAShLeHZXf9wjUmo6vRK4arj9cF3 and its account id, from the fixture
\* of STObject::try_from_value.
FIXTURE_ACCOUNT == "raD5qJMAShLeHZXf9wjUmo6vRK4arj9cF3"
FIXTURE_ACCOUNT_ID ==
    <<57, 64, 138, 105, 240, 137, 94, 98, 20, 156, 252, 192, 6, 251, 137,
      250, 125, 30, 110, 93>>
ACCOUNT_ZERO == "rrrrrrrrrrrrrrrrrrrrrhoLvTp"
ACCOUNT_ZERO_ID == [i \in 1..20 |-> 0]
\* r9cZA1mLK5R5Am25ArfXFmqgNwjZgnfk59 as an X-address without a tag and
\* with the tag 1.
XADDRESS_CLASSIC == "r9cZA1mLK5R5Am25ArfXFmqgNwjZgnfk59"
XADDRESS_NO_TAG == "X7AcgcsBL6XDcUb289X4mJ8djcdyKaB5hJDWMArnXr61cqZ"
XADDRESS_TAG_1 == "X7AcgcsBL6XDcUb289X4mJ8djcdyKaGZMhc9YTE92ehJ2Fu"
XADDRESS_ACCOUNT_ID ==
    <<94, 123, 17, 37, 35, 246, 141, 47, 94, 135, 157, 180, 234, 197, 28,
      102, 152, 166, 147, 4>>

IsValidXAddress(s) == s \in {XADDRESS_NO_TAG, XADDRESS_TAG_1}

\* xaddress_to_classic_address: (classic_address, tag, is_test_network);
\* has_tag is FALSE for a tag of None.
XAddressToClassicAddress(s) ==
    IF s = XADDRESS_TAG_1
    THEN [classic_address |-> XADDRESS_CLASSIC, has_tag |-> TRUE, tag |-> 1]
    ELSE [classic_address |-> XADDRESS_CLASSIC, has_tag |-> FALSE, tag |-> 0]

\* AccountId::try_from(&str)
AccountIdFromStr(s) ==
    CASE s = FIXTURE_ACCOUNT -> Ok(0, FIXTURE_ACCOUNT_ID)
      [] s = ACCOUNT_ZERO -> Ok(0, ACCOUNT_ZERO_ID)
      [] s = XADDRESS_CLASSIC -> Ok(0, XADDRESS_ACCOUNT_ID)
      [] OTHER -> Err("InvalidAccountId")

FIXTURE_SIGNING_PUB_KEY ==
    "028472865AF4CB32AA285834B57576B7290AA8C31B459047DB27E16F418D6A7166"
FIXTURE_SIGNING_PUB_KEY_BYTES ==
    <<2, 132, 114, 134, 90, 244, 203, 50, 170, 40, 88, 52, 181, 117, 118,
      183, 41, 10, 168, 195, 27, 69, 144, 71, 219, 39, 225, 111, 65, 141,
      106, 113, 102>>
FIXTURE_TXN_SIGNATURE ==
    "304502202ABE08D5E78D1E74A4C18F2714F64E87B8BD57444AFA5733109EB3C077077520022100DB335EE97386E4C0591CAC024D50E9230D8F171EEB901B5E5E4BD6D1E0AEF98C"
FIXTURE_TXN_SIGNATURE_BYTES ==
    <<48, 69, 2, 32, 42, 190, 8, 213, 231, 141, 30, 116, 164, 193, 143, 39,
      20, 246, 78, 135, 184, 189, 87, 68, 74, 250, 87, 51, 16, 158, 179,
      192, 119, 7, 117, 32, 2, 33, 0, 219, 51, 94, 233, 115, 134, 228, 192,
      89, 28, 172, 2, 77, 80, 233, 35, 13, 143, 23, 30, 235, 144, 27, 94,
      94, 75, 214, 209, 224, 174, 249, 140>>

\* hex::decode on the strings the model uses.
HexDecode(s) ==
    CASE s = FIXTURE_SIGNING_PUB_KEY -> Ok(0, FIXTURE_SIGNING_PUB_KEY_BYTES)
      [] s = FIXTURE_TXN_SIGNATURE -> Ok(0, FIXTURE_TXN_SIGNATURE_BYTES)
      [] s = "ABCD" -> Ok(0, <<171, 205>>)
      [] s = "00" -> Ok(0, <<0>>)
      [] s = "" -> Ok(0, <<>>)
      [] OTHER -> Err("FromHexError")

\* Blob::try_from(&str)
BlobFromStr(s) == HexDecode(s)

\* Hash128 / Hash160 / Hash256 ::try_from(&str): the decoded bytes must
\* have the hash's length.
HashFromStr(s, length) ==
    LET decoded == HexDecode(s)
    IN  IF decoded.kind # "ok" THEN decoded
        ELSE IF Len(decoded.bytes) # length THEN Err("InvalidHashLength")
        ELSE decoded

\* The 20 bytes of the currency code USD.
USD_CURRENCY ==
    <<0, 0, 0, 0, 0, 0, 0, 0, 0, 0, 0, 0, 85, 83, 68, 0, 0, 0, 0, 0>>

XRP_CURRENCY == [i \in 1..20 |-> 0]

\* Currency::try_from(&str): "XRP" is twenty zero bytes, a three-letter code
\* is its ASCII bytes at offset 12.
CurrencyFromStr(s) ==
    CASE s = "XRP" -> Ok(0, XRP_CURRENCY)
      [] s = "USD" -> Ok(0, USD_CURRENCY)
      [] OTHER -> Err("InvalidCurrency")

\* Currency::to_string of the 20 bytes.
CurrencyToString(bytes) ==
    CASE bytes = XRP_CURRENCY -> "XRP"
      [] bytes = USD_CURRENCY -> "USD"
      [] OTHER -> "hex"

\* Currency::from_parser(parser, None): the next 20 bytes.
CurrencyFromParser(buf) == ParserRead(buf, 20)

----------------------------------------------------------------------------
(* core/types/amount.rs: issued-currency amounts.  A Decimal is its sign,  *)
(* its mantissa as coef * 10^zeros (the mantissa itself does not fit the   *)
(* checker's integers) and its scale: the number is mantissa / 10^scale.   *)
(* exp is a u64 in the code; here it is the integer that is congruent to   *)
(* it modulo 2^64 and small, so a wrapped exp is negative.                 *)

Dec(negative, coef, zeros, scale) ==
    [negative |-> negative, coef |-> coef, zeros |-> zeros, scale |-> scale]

MIN_IOU_EXPONENT == -96
MAX_IOU_EXPONENT == 80
MAX_IOU_PRECISION == 16
\* _MIN_MANTISSA = 10^15 has 16 digits, _MAX_MANTISSA = 10^16 - 1 has 16.
MIN_MANTISSA_DIGITS == 16
MAX_MANTISSA_DIGITS == 16
NATIVE_AMOUNT_BYTE_LENGTH == 8
CURRENCY_AMOUNT_BYTE_LENGTH == 48

RECURSIVE NumDigits(_)
NumDigits(n) == IF n < 10 THEN 1 ELSE 1 + NumDigits(n \div 10)

\* The number of decimal digits of coef * 10^zeros, 0 for zero.
MantissaDigits(coef, zeros) == IF coef = 0 THEN 0 ELSE NumDigits(coef) + zeros

DecIsZero(d) == d.coef = 0

\* verify_valid_ic_value: zero is valid; otherwise the normalized value has
\* at most MAX_IOU_PRECISION digits and an exponent within the range.
RECURSIVE TrailingZeros(_)
TrailingZeros(n) == IF n = 0 \/ n % 10 # 0 THEN 0 ELSE 1 + TrailingZeros(n \div 10)

RECURSIVE StripZeros(_)
StripZeros(n) == IF n = 0 \/ n % 10 # 0 THEN n ELSE StripZeros(n \div 10)

VerifyValidIcValue(d) ==
    IF DecIsZero(d) THEN Ok(0, <<>>)
    ELSE LET exponent == (d.zeros + TrailingZeros(d.coef)) - d.scale
             prec == NumDigits(StripZeros(d.coef))
         IN  IF \/ prec > MAX_IOU_PRECISION
                \/ exponent > MAX_IOU_EXPONENT
                \/ exponent < MIN_IOU_EXPONENT
             THEN Err("InvalidICPrecision")
             ELSE Ok(0, <<>>)

\* The bytes of a non-negative number, least significant first, times k.
RECURSIVE MulLE(_, _, _)
MulLE(bytes, k, carry) ==
    IF bytes = <<>> THEN <<>>
    ELSE LET v == Head(bytes) * k + carry
         IN  <<v % 256>> \o MulLE(Tail(bytes), k, v \div 256)

Reverse(seq) == [i \in 1..Len(seq) |-> seq[Len(seq) + 1 - i]]

\* coef * 10^zeros as 8 bytes, least significant first.
RECURSIVE MantissaLE(_, _)
MantissaLE(coef, zeros) ==
    IF zeros = 0 THEN Reverse(ToBeBytes(coef, 8))
    ELSE MulLE(MantissaLE(coef, zeros - 1), 10, 0)

\* Lines 71-74: while mantissa < _MIN_MANTISSA && exp as i32 > MIN_IOU_EXPONENT
\* { mantissa *= 10; exp -= 1 }.  exp -= 1 at 0 overflows the u64: a panic
\* in a build with overflow checks, a wrap without.
RECURSIVE ScaleUp(_, _, _, _)
ScaleUp(coef, zeros, exp, build) ==
    IF MantissaDigits(coef, zeros) < MIN_MANTISSA_DIGITS /\ exp > MIN_IOU_EXPONENT
    THEN IF exp = 0 /\ build = "debug"
         THEN [kind |-> "panic", coef |-> coef, zeros |-> zeros, exp |-> exp,
               err |-> "attempt to subtract with overflow"]
         ELSE ScaleUp(coef, zeros + 1, exp - 1, build)
    ELSE [kind |-> "ok", coef |-> coef, zeros |-> zeros, exp |-> exp, err |-> ""]

\* Lines 76-86: while mantissa > _MAX_MANTISSA { if exp >= MAX_IOU_EXPONENT
\* { overflow error } else { mantissa /= 10; exp += 1 } }.  A wrapped exp is
\* above every bound as a u64.
RECURSIVE ScaleDown(_, _, _)
ScaleDown(coef, zeros, exp) ==
    IF MantissaDigits(coef, zeros) > MAX_MANTISSA_DIGITS
    THEN IF exp < 0 \/ exp >= MAX_IOU_EXPONENT
         THEN [kind |-> "err", coef |-> coef, zeros |-> zeros, exp |-> exp,
               err |-> "UnexpectedICAmountOverflow"]
         ELSE IF zeros > 0 THEN ScaleDown(coef, zeros - 1, exp + 1)
         ELSE ScaleDown(coef \div 10, zeros, exp + 1)
    ELSE [kind |-> "ok", coef |-> coef, zeros |-> zeros, exp |-> exp, err |-> ""]

\* (_ZERO_CURRENCY_AMOUNT_HEX as i128).to_be_bytes(): 16 bytes.
ZERO_CURRENCY_AMOUNT_BYTES == <<0, 0, 0, 0, 0, 0, 0, 0, 128, 0, 0, 0, 0, 0, 0, 0>>

\* Lines 96-110: the i128 `serial` as 16 big-endian bytes.
SerialBytes(positive, exp, coef, zeros) ==
    LET mantissa == Reverse(MantissaLE(coef, zeros))
        biased == exp + 97
        low == [i \in 1..8 |->
                   IF i = 1
                   THEN ((128 + (IF positive THEN 64 ELSE 0)) + (biased \div 4))
                          + mantissa[1]
                   ELSE IF i = 2 THEN ((biased % 4) * 64) + mantissa[2]
                   ELSE mantissa[i]]
    IN  <<0, 0, 0, 0, 0, 0, 0, 0>> \o low

\* _serialize_issued_currency_value
SerializeIssuedCurrencyValue(d, build) ==
    IF VerifyValidIcValue(d).kind # "ok" THEN VerifyValidIcValue(d)
    ELSE IF DecIsZero(d) THEN Ok(0, ZERO_CURRENCY_AMOUNT_BYTES)
    ELSE
        LET up == ScaleUp(d.coef, d.zeros, d.scale, build)
            down == ScaleDown(up.coef, up.zeros, up.exp)
        IN  IF up.kind = "panic" THEN Panic(up.err)
            ELSE IF down.kind = "err" THEN Err(down.err)
            ELSE IF \/ down.exp < MIN_IOU_EXPONENT
                    \/ MantissaDigits(down.coef, down.zeros) < MIN_MANTISSA_DIGITS
            THEN Ok(0, ZERO_CURRENCY_AMOUNT_BYTES)
            ELSE IF \/ down.exp < 0
                    \/ down.exp > MAX_IOU_EXPONENT
                    \/ MantissaDigits(down.coef, down.zeros) > MAX_MANTISSA_DIGITS
            THEN Err("UnexpectedICAmountOverflow")
            ELSE Ok(0, SerialBytes(~d.negative, down.exp, down.coef, down.zeros))

\* Vec<u8> -> [u8; 8] by try_into().expect(..): panics unless 8 bytes long.
AmountTryInto(bytes) ==
    IF Len(bytes) = NATIVE_AMOUNT_BYTE_LENGTH THEN Ok(0, bytes)
    ELSE Panic("_serialize_issued_currency_amount")

\* _serialize_issued_currency_amount
SerializeIssuedCurrencyAmount(ic, build) ==
    LET amount_bytes == SerializeIssuedCurrencyValue(ic.value, build)
    IN  IF amount_bytes.kind # "ok" THEN amount_bytes
        ELSE AmountTryInto((amount_bytes.bytes \o ic.currency) \o ic.issuer)

\* Amount::from_parser: 48 bytes when peek() is None, 8 bytes when it is
\* Some(_).
AmountFromParser(buf) ==
    LET parser_first_byte == ParserPeek(buf)
        num_bytes == IF parser_first_byte.val = -1
                     THEN CURRENCY_AMOUNT_BYTE_LENGTH
                     ELSE NATIVE_AMOUNT_BYTE_LENGTH
    IN  ParserRead(buf, num_bytes)


\* Decimal::from_str on the strings the model uses: the number is
\* coef * 10^zeros / 10^scale, negated when negative.
XrpDecimal(negative, coef, zeros, scale) ==
    [parsed |-> TRUE, negative |-> negative, coef |-> coef, zeros |-> zeros,
     scale |-> scale]
ParseDecimal(s) ==
    CASE s = "0" -> XrpDecimal(FALSE, 0, 0, 0)
      [] s = "10" -> XrpDecimal(FALSE, 1, 1, 0)
      [] s = "1000000" -> XrpDecimal(FALSE, 1, 6, 0)
      [] s = "1234567" -> XrpDecimal(FALSE, 1234567, 0, 0)
      [] s = "100000000000000000" -> XrpDecimal(FALSE, 1, 17, 0)
      [] s = "1000000000000000000" -> XrpDecimal(FALSE, 1, 18, 0)
      [] s = "-1" -> XrpDecimal(TRUE, 1, 0, 0)
      [] s = "1.5" -> XrpDecimal(FALSE, 15, 0, 1)
      [] s = "0.5" -> XrpDecimal(FALSE, 5, 0, 1)
      [] OTHER -> [parsed |-> FALSE, negative |-> FALSE, coef |-> 0,
                   zeros |-> 0, scale |-> 0]

\* The largest number of drops, 10^17, has 18 digits.
MAX_DROPS_DIGITS == 18

\* verify_valid_xrp_value: the string is a non-negative whole number of
\* drops of at most 10^17.
VerifyValidXrpValue(s) ==
    LET d == ParseDecimal(s)
    IN  IF ~d.parsed THEN Err("DecimalError")
        ELSE IF d.coef = 0 THEN Ok(0, <<>>)
        ELSE IF d.negative \/ d.scale > 0 THEN Err("InvalidXRPAmount")
        ELSE IF \/ MantissaDigits(d.coef, d.zeros) > MAX_DROPS_DIGITS
                \/ /\ MantissaDigits(d.coef, d.zeros) = MAX_DROPS_DIGITS
                   /\ d.coef # 1
        THEN Err("InvalidXRPAmountTooLarge")
        ELSE Ok(0, <<>>)

RECURSIVE Pow10(_)
Pow10(n) == IF n = 0 THEN 1 ELSE 10 * Pow10(n - 1)

SerializeXrpAmountNoSignBit(s) ==
    LET d == ParseDecimal(s)
    IN  IF VerifyValidXrpValue(s).kind # "ok" THEN VerifyValidXrpValue(s)
        ELSE IF d.negative /\ d.coef # 0 THEN Err("InvalidXRPAmount")
        ELSE Ok(0, Reverse(MantissaLE(d.coef \div Pow10(d.scale), d.zeros)))

\* _serialize_xrp_amount: Decimal::to_u64 is None for a negative number and
\* drops the fraction of any other; the result has _POS_SIGN_BIT_MASK set,
\* which is bit 6 of the first of the 8 big-endian bytes.
SerializeXrpAmount(s) ==
    LET d == ParseDecimal(s)
    IN  IF VerifyValidXrpValue(s).kind # "ok" THEN VerifyValidXrpValue(s)
        ELSE IF d.negative /\ d.coef # 0 THEN Err("InvalidXRPAmount")
        ELSE LET result == Reverse(MantissaLE(d.coef \div Pow10(d.scale), d.zeros))
             IN  Ok(0, <<(result[1] % 64) + 64 + ((result[1] \div 128) * 128)>>
                          \o Tail(result))

\* Amount::try_from(&str)
AmountFromStr(s) == SerializeXrpAmount(s)

\* Amount::is_native and Amount::is_positive: self.0[0] == 0 and
\* self.0[1] > 0, which panic on a buffer without that byte.  val is 1 for
\* true.
AmountIsNative(buffer) ==
    IF Len(buffer) < 1 THEN Panic("index out of bounds")
    ELSE Ok(IF buffer[1] = 0 THEN 1 ELSE 0, <<>>)

AmountIsPositive(buffer) ==
    IF Len(buffer) < 2 THEN Panic("index out of bounds")
    ELSE Ok(IF buffer[2] > 0 THEN 1 ELSE 0, <<>>)

----------------------------------------------------------------------------
(* Serialization::write_field_and_value                                    *)

SerWriteFieldAndValue(ser, field, value, is_unl_modify_workaround) ==
    LET with_header == ser \o HeaderToBytes(field.type_code, field.field_code)
    IN  IF field.is_vl_encoded
        THEN SerWriteLengthEncoded(with_header, value, ~is_unl_modify_workaround)
        ELSE Ok(0, with_header \o value)

----------------------------------------------------------------------------
(* XRPLTypes::from_value and STObject::try_from_value.  The outcome of     *)
(* try_from_value holds the bytes and, for the properties, what each field *)
(* wrote: its name, header, the bytes after the header (body), the         *)
(* serialized value and the marker appended after it.                      *)

SOk(bytes, segs) ==
    [kind |-> "ok", val |-> 0, bytes |-> bytes, err |-> "", segs |-> segs, hex |-> <<>>]
SErr(e) ==
    [kind |-> "err", val |-> -1, bytes |-> <<>>, err |-> e, segs |-> <<>>, hex |-> <<>>]
SPanic(e) ==
    [kind |-> "panic", val |-> -1, bytes |-> <<>>, err |-> e, segs |-> <<>>, hex |-> <<>>]

MOk(map) == [kind |-> "ok", map |-> map, err |-> ""]
MErr(e) == [kind |-> "err", map |-> <<>>, err |-> e]

HandleXAddressDropsTag(field, xaddress) ==
    MOk(<< <<field, JStr(XAddressToClassicAddress(xaddress).classic_address)>> >>)

HandleXAddressTagOnAnyField(field, xaddress) ==
    LET decoded == XAddressToClassicAddress(xaddress)
        classic_address == JStr(decoded.classic_address)
    IN  IF decoded.has_tag /\ field = DESTINATION
        THEN MOk(<< <<field, classic_address>>,
                    <<DESTINATION_TAG, JNum(decoded.tag)>> >>)
        ELSE IF decoded.has_tag /\ field = ACCOUNT
        THEN MOk(<< <<field, classic_address>>,
                    <<SOURCE_TAG, JNum(decoded.tag)>> >>)
        ELSE MOk(<< <<field, classic_address>> >>)

\* handle_xaddress (a valid X-address always decodes).
HandleXAddress(field, xaddress) ==
    LET decoded == XAddressToClassicAddress(xaddress)
        classic_address == JStr(decoded.classic_address)
    IN  IF decoded.has_tag
        THEN IF field = DESTINATION
             THEN MOk(<< <<field, classic_address>>,
                         <<DESTINATION_TAG, JNum(decoded.tag)>> >>)
             ELSE IF field = ACCOUNT
             THEN MOk(<< <<field, classic_address>>,
                         <<SOURCE_TAG, JNum(decoded.tag)>> >>)
             ELSE MErr("DisallowedTag")
        ELSE MOk(<< <<field, classic_address>> >>)

\* The first loop of try_from_value (lines 243-318): value_xaddress_handled.
RECURSIVE HandleFields(_, _, _)
HandleFields(object, i, handled) ==
    IF i > Len(object) THEN MOk(handled)
    ELSE
        LET field == object[i][1]
            value == object[i][2]
        IN  IF value.kind = "str"
            THEN IF IsValidXAddress(value.s)
                 THEN LET hx == HandleXAddress(field, value.s)
                      IN  IF hx.kind # "ok" THEN hx
                          ELSE IF /\ MapHas(hx.map, SOURCE_TAG)
                                  /\ MapHas(object, SOURCE_TAG)
                                  /\ MapGet(hx.map, SOURCE_TAG) # MapGet(object, SOURCE_TAG)
                          THEN MErr("AccountMismatchingTags")
                          ELSE IF /\ MapHas(hx.map, DESTINATION_TAG)
                                  /\ MapHas(object, DESTINATION_TAG)
                                  /\ MapGet(hx.map, DESTINATION_TAG)
                                       # MapGet(object, DESTINATION_TAG)
                          THEN MErr("DestinationMismatchingTags")
                          ELSE HandleFields(object, i + 1, MapExtend(handled, hx.map))
                 ELSE IF field = "TransactionType"
                 THEN LET c == GetTransactionTypeCode(value.s)
                      IN  IF ~c.found THEN MErr("UnknownTransactionType")
                          ELSE HandleFields(object, i + 1,
                                            MapInsert(handled, field, JNum(c.code)))
                 ELSE IF field = "TransactionResult"
                 THEN LET c == GetTransactionResultCode(value.s)
                      IN  IF ~c.found THEN MErr("UnknownTransactionResult")
                          ELSE HandleFields(object, i + 1,
                                            MapInsert(handled, field, JNum(c.code)))
                 ELSE IF field = "LedgerEntryType"
                 THEN LET c == GetTransactionTypeCode(value.s)
                      IN  IF ~c.found THEN MErr("UnknownLedgerEntryType")
                          ELSE HandleFields(object, i + 1,
                                            MapInsert(handled, field, JNum(c.code)))
                 ELSE HandleFields(object, i + 1, MapInsert(handled, field, value))
            ELSE HandleFields(object, i + 1, MapInsert(handled, field, value))

\* Lines 320-330: the field instances of the registered, serialized fields,
\* in the order the map iterates them.
RECURSIVE CollectKeys(_, _)
CollectKeys(handled, i) ==
    IF i > Len(handled) THEN <<>>
    ELSE LET field == handled[i][1]
             rest == CollectKeys(handled, i + 1)
         IN  IF /\ HasFieldInstance(field)
                /\ MapHas(handled, GetFieldInstance(field).name)
                /\ GetFieldInstance(field).is_serialized
             THEN <<GetFieldInstance(field)>> \o rest
             ELSE rest

\* Line 331: sort_by_key(|k| k.ordinal), a stable sort.
InsertByOrdinal(sorted, k) ==
    LET before == SelectSeq(sorted, LAMBDA x : x.ordinal <= k.ordinal)
        after == SelectSeq(sorted, LAMBDA x : x.ordinal > k.ordinal)
    IN  (before \o <<k>>) \o after

RECURSIVE SortFrom(_, _, _)
SortFrom(keys, i, sorted) ==
    IF i > Len(keys) THEN sorted
    ELSE SortFrom(keys, i + 1, InsertByOrdinal(sorted, keys[i]))

KeepIterationOrder(keys) == keys

SortByOrdinal(keys) == SortFrom(keys, 1, <<>>)

\* Lines 332-334: retain(|k| k.is_signing) when signing_only.
RetainAll(keys, signing_only) == keys

RetainSigning(keys, signing_only) ==
    IF signing_only THEN SelectSeq(keys, LAMBDA k : k.is_signing) ELSE keys

\* Lines 359-361: the marker appended after a field.
EndMarkerAfterEveryField(field_instance) == OBJECT_END_MARKER_BYTES

EndMarkerFor(field_instance) ==
    IF field_instance.associated_type = ST_OBJECT
    THEN OBJECT_END_MARKER_BYTES
    ELSE <<>>

\* amount_from_map: issued-currency objects are not among the values the
\* object driver draws; _serialize_issued_currency_amount ends in
\* bytes.try_into().expect(..) on more than 8 bytes.
AmountFromMap(o) ==
    IF ~(MapHas(o, "value") /\ MapHas(o, "currency") /\ MapHas(o, "issuer"))
    THEN Err("MissingField")
    ELSE Panic("_serialize_issued_currency_amount")

RECURSIVE STObjectTryFromValue(_, _)

\* XRPLTypes::from_value followed by Into<SerializedType>: the bytes of the
\* value.  `as u8` and `as u16` truncate; numbers stay below 2^31, where
\* `as u32` and `as u64` change nothing.
XRPLTypeFromValue(name, value) ==
    IF value.kind = "str" THEN
        CASE name = "AccountID" -> AccountIdFromStr(value.s)
          [] name = "Amount" -> AmountFromStr(value.s)
          [] name = "Blob" -> BlobFromStr(value.s)
          [] name = "Currency" -> CurrencyFromStr(value.s)
          [] name = "Hash128" -> HashFromStr(value.s, 16)
          [] name = "Hash160" -> HashFromStr(value.s, 20)
          [] name = "Hash256" -> HashFromStr(value.s, 32)
          [] OTHER -> Err("UnknownXRPLType")
    ELSE IF value.kind = "num" /\ value.n >= 0 THEN
        CASE name = "UInt8" -> Ok(0, ToBeBytes(value.n % 256, 1))
          [] name = "UInt16" -> Ok(0, ToBeBytes(value.n % 65536, 2))
          [] name = "UInt32" -> Ok(0, ToBeBytes(value.n, 4))
          [] name = "UInt64" -> Ok(0, ToBeBytes(value.n, 8))
          [] OTHER -> Err("UnknownXRPLType")
    ELSE IF value.kind = "obj" THEN
        CASE name = "Amount" -> AmountFromMap(value.o)
          [] name = "STObject" ->
                LET nested == STObjectTryFromValue(value, FALSE)
                IN  [kind |-> nested.kind, val |-> nested.val,
                     bytes |-> nested.bytes, err |-> nested.err]
          [] OTHER -> Err("UnknownXRPLType")
    ELSE IF value.kind = "arr" THEN Panic("todo!()")
    ELSE Err("UnknownXRPLType")

\* The last loop of try_from_value (lines 335-362).  Line 356 computes the
\* workaround flag of the Account field and line 358 calls
\* write_field_and_value with the field and the value only: the flag is not
\* passed on.
RECURSIVE WriteFields(_, _, _, _, _, _)
WriteFields(sorted_keys, i, handled, ser, is_unl_modify, segs) ==
    IF i > Len(sorted_keys) THEN SOk(ser, segs)
    ELSE
        LET field_instance == sorted_keys[i]
        IN  IF ~MapHas(handled, field_instance.name)
            THEN SErr("Error prossessing field")
            ELSE
            LET associated_value ==
                    XRPLTypeFromValue(field_instance.associated_type,
                                      MapGet(handled, field_instance.name))
            IN  IF associated_value.kind = "err" THEN SErr(associated_value.err)
                ELSE IF associated_value.kind = "panic" THEN SPanic(associated_value.err)
                ELSE
                LET now_unl_modify ==
                        \/ is_unl_modify
                        \/ /\ field_instance.name = "TransactionType"
                           /\ HexUpper(associated_value.bytes) = UNL_MODIFY_TX_TYPE
                    _is_unl_modify_workaround ==
                        field_instance.name = "Account" /\ now_unl_modify
                    header == HeaderToBytes(field_instance.type_code,
                                            field_instance.field_code)
                    written == SerWriteFieldAndValue(ser, field_instance,
                                                     associated_value.bytes, FALSE)
                    marker == EndMarkerFor(field_instance)
                IN  IF written.kind = "panic" THEN SPanic(written.err)
                    ELSE WriteFields(sorted_keys, i + 1, handled,
                                     written.bytes \o marker, now_unl_modify,
                                     Append(segs,
                                         [name |-> field_instance.name,
                                          header |-> header,
                                          body |-> Drop(written.bytes,
                                                        Len(ser) + Len(header)),
                                          value |-> associated_value.bytes,
                                          marker |-> marker]))

STObjectTryFromValue(value, signing_only) ==
    IF value.kind # "obj" THEN SErr("ExpectedObject")
    ELSE
        LET handled == HandleFields(value.o, 1, <<>>)
        IN  IF handled.kind # "ok" THEN SErr(handled.err)
            ELSE LET sorted_keys ==
                         RetainSigning(SortByOrdinal(CollectKeys(handled.map, 1)),
                                       signing_only)
                 IN  WriteFields(sorted_keys, 1, handled.map, <<>>, FALSE, <<>>)

----------------------------------------------------------------------------
(* core/binarycodec: encode, encode_for_signing, serialize_json.  The      *)
(* transaction is taken as the JSON value serde_json::to_value makes of    *)
(* it; has_prefix and has_suffix are FALSE for None.  unwrap() panics on   *)
(* an error of try_from_value.                                             *)

SerializeJsonNoPrefix(json_value, has_prefix, prefix, has_suffix, suffix, signing_only) ==
    LET st_object == STObjectTryFromValue(json_value, signing_only)
    IN  IF st_object.kind # "ok" THEN SPanic(st_object.err)
        ELSE [st_object EXCEPT !.hex = HexUpper(st_object.bytes)]

SerializeJson(json_value, has_prefix, prefix, has_suffix, suffix, signing_only) ==
    LET st_object == STObjectTryFromValue(json_value, signing_only)
        buffer == ((IF has_prefix THEN prefix ELSE <<>>) \o st_object.bytes)
                    \o (IF has_suffix THEN suffix ELSE <<>>)
    IN  IF st_object.kind # "ok" THEN SPanic(st_object.err)
        ELSE [st_object EXCEPT !.hex = HexUpper(buffer)]

EncodeJson(json_value) == SerializeJson(json_value, FALSE, <<>>, FALSE, <<>>, FALSE)

EncodeForSigningJson(json_value) ==
    SerializeJson(json_value, TRUE, TRANSACTION_SIGNATURE_PREFIX, FALSE, <<>>, TRUE)

----------------------------------------------------------------------------
(* core/binarycodec/types/issue.rs                                         *)

IssueFromParserAlwaysIssuer(buf) ==
    LET currency == CurrencyFromParser(buf)
    IN  IF currency.kind # "ok" THEN currency
        ELSE LET issuer == ParserRead(currency.rest, 20)
             IN  IF issuer.kind # "ok" THEN issuer
                 ELSE POk(0, currency.bytes \o issuer.bytes, issuer.rest)

\* Issue::from_parser
IssueFromParser(buf) ==
    LET currency == CurrencyFromParser(buf)
    IN  IF currency.kind # "ok" THEN currency
        ELSE IF CurrencyToString(currency.bytes) = "XRP"
        THEN POk(0, currency.bytes, currency.rest)
        ELSE LET issuer == ParserRead(currency.rest, 20)
             IN  IF issuer.kind # "ok" THEN issuer
                 ELSE POk(0, currency.bytes \o issuer.bytes, issuer.rest)

\* issued_currency[key].as_str().ok_or(MissingField(key)): indexing a
\* serde_json Map by a key it does not hold panics.
IssueField(o, key) ==
    IF ~MapHas(o, key) THEN Panic("no entry found for key")
    ELSE IF MapGet(o, key).kind # "str" THEN Err("MissingField(" \o key \o ")")
    ELSE [kind |-> "ok", val |-> 0, bytes |-> <<>>, err |-> "",
          s |-> MapGet(o, key).s]

\* Issue::try_from(Value)
IssueTryFromValue(value) ==
    IF /\ value.kind = "obj"
       /\ MapHas(value.o, "currency")
       /\ MapGet(value.o, "currency") = JStr("XRP")
    THEN CurrencyFromStr("XRP")
    ELSE IF value.kind = "obj" THEN
        LET cur == IssueField(value.o, "currency")
        IN  IF cur.kind # "ok" THEN cur
            ELSE
            LET currency == CurrencyFromStr(cur.s)
            IN  IF currency.kind # "ok" THEN currency
                ELSE
                LET issuer == IssueField(value.o, "issuer")
                IN  IF issuer.kind # "ok" THEN issuer
                    ELSE
                    LET account == AccountIdFromStr(issuer.s)
                    IN  IF account.kind # "ok" THEN account
                        ELSE Ok(0, currency.bytes \o account.bytes)
    ELSE Err("UnexpectedJSONType")

----------------------------------------------------------------------------
(* core/keypairs.  Strings are sequences of characters.  The curve and     *)
(* hash functions of the external crates are stood for by fixed functions  *)
(* on bytes: a signature verifies exactly when it is what signing the      *)
(* message with the secret of the public key gives.                        *)

ED25519_PREFIX == <<"E", "D">>
KEY_BYTES == 32
SIGNATURE_VERIFICATION_MESSAGE == <<84, 104, 105, 115>>
TEST_MESSAGE == <<116, 101, 115, 116>>

HexDigitsLower ==
    <<"0", "1", "2", "3", "4", "5", "6", "7",
      "8", "9", "a", "b", "c", "d", "e", "f">>

\* The value of a hex character of either case, -1 for any other.
HexCharValue(c) ==
    IF \E d \in 1..16 : HexDigits[d] = c
    THEN (CHOOSE d \in 1..16 : HexDigits[d] = c) - 1
    ELSE IF \E d \in 1..16 : HexDigitsLower[d] = c
    THEN (CHOOSE d \in 1..16 : HexDigitsLower[d] = c) - 1
    ELSE -1

\* hex::decode
HexDecodeChars(chars) ==
    IF Len(chars) % 2 # 0 THEN Err("OddLength")
    ELSE IF \E i \in 1..Len(chars) : HexCharValue(chars[i]) = -1
    THEN Err("InvalidHexCharacter")
    ELSE Ok(0, [i \in 1..(Len(chars) \div 2) |->
                  HexCharValue(chars[2 * i - 1]) * 16 + HexCharValue(chars[2 * i])])

RECURSIVE SumBytes(_)
SumBytes(bytes) == IF bytes = <<>> THEN 0 ELSE Head(bytes) + SumBytes(Tail(bytes))

\* sha512_first_half
Sha512FirstHalf(bytes) ==
    [i \in 1..KEY_BYTES |->
        IF bytes = <<>> THEN i
        ELSE (bytes[((i - 1) % Len(bytes)) + 1] * 31 + i) % 256]

\* ed25519_dalek::PublicKey::from(&secret)
EdPublicFromSecret(secret) == [i \in 1..KEY_BYTES |-> (secret[i] * 7 + 3) % 256]

\* ExpandedSecretKey::sign: 64 bytes.
EdSignature(message, secret) ==
    LET public == EdPublicFromSecret(secret)
    IN  public \o [i \in 1..KEY_BYTES |->
                     (public[i] + SumBytes(message) + i * Len(message)) % 256]

\* PublicKey::verify
EdVerify(message, signature, public) ==
    signature = public \o [i \in 1..KEY_BYTES |->
                             (public[i] + SumBytes(message) + i * Len(message)) % 256]

\* secp256k1: public key (33 bytes), compact signature, verification.
SecpPublicFromSecret(secret) ==
    <<2>> \o [i \in 1..KEY_BYTES |-> (secret[i] * 11 + 5) % 256]
SecpSignature(message, secret) ==
    Drop(SecpPublicFromSecret(secret), 1)
      \o [i \in 1..KEY_BYTES |-> (secret[i] * 11 + message[i] + 5) % 256]
SecpVerify(message, signature, public) ==
    /\ Take(signature, KEY_BYTES) = Drop(public, 1)
    /\ \A i \in 1..KEY_BYTES :
         signature[KEY_BYTES + i] = (public[i + 1] + message[i]) % 256

KOk(engine, public, private, signature, valid) ==
    [kind |-> "ok", err |-> "", engine |-> engine, public |-> public,
     private |-> private, signature |-> signature, valid |-> valid]
KErr(engine, e) ==
    [kind |-> "err", err |-> e, engine |-> engine, public |-> <<>>,
     private |-> <<>>, signature |-> <<>>, valid |-> FALSE]
KPanic(e) ==
    [kind |-> "panic", err |-> e, engine |-> "", public |-> <<>>,
     private |-> <<>>, signature |-> <<>>, valid |-> FALSE]

\* Ed25519::_format_key: the prefix and the uppercase hex of the key.
EdFormatKey(key_bytes) == ED25519_PREFIX \o HexUpper(key_bytes)

\* impl CryptoImplementation for Ed25519
EdDeriveKeypair(decoded_seed, is_validator) ==
    IF is_validator THEN KErr("Ed25519", "UnsupportedValidatorAlgorithm")
    ELSE LET raw_private == Sha512FirstHalf(decoded_seed)
             public == EdPublicFromSecret(raw_private)
         IN  KOk("Ed25519", EdFormatKey(public), EdFormatKey(raw_private), <<>>, FALSE)

EdSign(message, private_key) ==
    IF Len(private_key) < Len(ED25519_PREFIX) THEN KPanic("byte index out of bounds")
    ELSE LET raw_private == HexDecodeChars(Drop(private_key, Len(ED25519_PREFIX)))
         IN  IF raw_private.kind # "ok" THEN KErr("Ed25519", "FromHexError")
             ELSE IF Len(raw_private.bytes) # KEY_BYTES
             THEN KErr("Ed25519", "ED25519Error")
             ELSE KOk("Ed25519", <<>>, <<>>,
                      EdSignature(message, raw_private.bytes), FALSE)

EdIsValidMessage(message, signature, public_key) ==
    IF Len(public_key) < Len(ED25519_PREFIX) THEN KPanic("byte index out of bounds")
    ELSE LET raw_public == HexDecodeChars(Drop(public_key, Len(ED25519_PREFIX)))
         IN  IF raw_public.kind # "ok" THEN KOk("Ed25519", <<>>, <<>>, <<>>, FALSE)
             ELSE IF Len(raw_public.bytes) # KEY_BYTES
             THEN KOk("Ed25519", <<>>, <<>>, <<>>, FALSE)
             ELSE KOk("Ed25519", <<>>, <<>>, <<>>,
                      EdVerify(message, signature, raw_public.bytes))

\* impl CryptoImplementation for Secp256k1.  _format_key pads to a width of
\* SECP256K1_KEY_LENGTH - len, which is below the key's length: the key is
\* its uppercase hex.
SecpFormatKey(key_bytes) == HexUpper(key_bytes)

SecpDeriveKeypair(decoded_seed, is_validator) ==
    IF Len(decoded_seed) # KEY_BYTES THEN KErr("Secp256k1", "SECP256K1Error")
    ELSE KOk("Secp256k1", SecpFormatKey(SecpPublicFromSecret(decoded_seed)),
             SecpFormatKey(decoded_seed), <<>>, FALSE)

SecpSign(message, private_key) ==
    LET private == HexDecodeChars(private_key)
    IN  IF Len(message) # KEY_BYTES THEN KErr("Secp256k1", "SECP256K1Error")
        ELSE IF private.kind # "ok" \/ Len(private.bytes) # KEY_BYTES
        THEN KErr("Secp256k1", "SECP256K1Error")
        ELSE KOk("Secp256k1", <<>>, <<>>, SecpSignature(message, private.bytes), FALSE)

SecpIsValidMessage(message, signature, public_key) ==
    LET public == HexDecodeChars(public_key)
    IN  IF \/ Len(message) # KEY_BYTES
           \/ public.kind # "ok"
           \/ Len(public.bytes) # KEY_BYTES + 1
        THEN KOk("Secp256k1", <<>>, <<>>, <<>>, FALSE)
        ELSE KOk("Secp256k1", <<>>, <<>>, <<>>,
                 SecpVerify(message, signature, public.bytes))

\* _get_algorithm_engine: both arms give Ed25519.
GetAlgorithmEngine(algo) ==
    CASE algo = "ED25519" -> "Ed25519"
      [] algo = "SECP256K1" -> "Ed25519"

\* _get_algorithm_engine_from_key; &key[..2] panics on a shorter key.
GetAlgorithmEngineFromKey(key) ==
    IF Take(key, 2) = ED25519_PREFIX
    THEN GetAlgorithmEngine("ED25519")
    ELSE GetAlgorithmEngine("SECP256K1")

ModuleDeriveKeypair(module, decoded_seed, is_validator) ==
    IF module = "Ed25519" THEN EdDeriveKeypair(decoded_seed, is_validator)
    ELSE SecpDeriveKeypair(decoded_seed, is_validator)

ModuleSign(module, message, private_key) ==
    IF module = "Ed25519" THEN EdSign(message, private_key)
    ELSE SecpSign(message, private_key)

ModuleIsValidMessage(module, message, signature, public_key) ==
    IF module = "Ed25519" THEN EdIsValidMessage(message, signature, public_key)
    ELSE SecpIsValidMessage(message, signature, public_key)

\* decode_seed: the entropy and the algorithm of a seed string.
SEEDS == {"sEdSeedA", "sEdSeedB", "sEdSeedC", "snSeedA", "snSeedB", "notASeed"}

DecodeSeed(seed) ==
    CASE seed = "sEdSeedA" -> [kind |-> "ok", bytes |-> [i \in 1..16 |-> 1], algorithm |-> "ED25519"]
      [] seed = "sEdSeedB" -> [kind |-> "ok", bytes |-> [i \in 1..16 |-> 2], algorithm |-> "ED25519"]
      [] seed = "sEdSeedC" -> [kind |-> "ok", bytes |-> [i \in 1..16 |-> i], algorithm |-> "ED25519"]
      [] seed = "snSeedA" -> [kind |-> "ok", bytes |-> [i \in 1..16 |-> 1], algorithm |-> "SECP256K1"]
      [] seed = "snSeedB" -> [kind |-> "ok", bytes |-> [i \in 1..16 |-> 3], algorithm |-> "SECP256K1"]
      [] OTHER -> [kind |-> "err", bytes |-> <<>>, algorithm |-> ""]

\* derive_keypair
DeriveKeypairTop(seed, validator) ==
    LET decoded == DecodeSeed(seed)
    IN  IF decoded.kind # "ok" THEN KErr("", "XRPLAddressCodecException")
        ELSE
        LET module == GetAlgorithmEngine(decoded.algorithm)
            keys == ModuleDeriveKeypair(module, decoded.bytes, validator)
            signature == ModuleSign(module, SIGNATURE_VERIFICATION_MESSAGE, keys.private)
        IN  IF keys.kind # "ok" THEN keys
            ELSE IF signature.kind # "ok" THEN signature
            ELSE IF ModuleIsValidMessage(module, SIGNATURE_VERIFICATION_MESSAGE,
                                         signature.signature, keys.public).valid
            THEN keys
            ELSE KErr(module, "InvalidSignature")

\* sign: the result's signature is the uppercase hex of the 64 bytes.
SignTop(message, private_key) ==
    IF Len(private_key) < 2 THEN KPanic("byte index out of bounds")
    ELSE LET module == GetAlgorithmEngineFromKey(private_key)
             result == ModuleSign(module, message, private_key)
         IN  IF result.kind # "ok" THEN result
             ELSE [result EXCEPT !.signature = HexUpper(result.signature)]

IsValidMessageAlwaysSecp(message, signature, public_key) ==
    ModuleIsValidMessage("Secp256k1", message, signature, public_key)

\* is_valid_message
IsValidMessageTop(message, signature, public_key) ==
    IF Len(public_key) < 2 THEN KPanic("byte index out of bounds")
    ELSE ModuleIsValidMessage(GetAlgorithmEngineFromKey(public_key),
                              message, signature, public_key)

----------------------------------------------------------------------------
(* The object driver: a JSON value is drawn, then one of try_from_value,   *)
(* encode and encode_for_signing is called on it.  The fields of an object *)
(* are drawn from ObjectPool with distinct names, in every order.          *)

MEMO ==
    JObj(<< <<"MemoData", JStr("ABCD")>>,
            <<"TxnSignature", JStr("00")>>,
            <<"MemoType", JStr("00")>> >>)

PoolSeq ==
    << <<"TransactionType", JStr("OfferCreate")>>,
       <<"TransactionType", JStr("UNLModify")>>,
       <<"Account", JStr(FIXTURE_ACCOUNT)>>,
       <<"Account", JStr(ACCOUNT_ZERO)>>,
       <<"Fee", JStr("10")>>,
       <<"SigningPubKey", JStr(FIXTURE_SIGNING_PUB_KEY)>>,
       <<"TxnSignature", JStr(FIXTURE_TXN_SIGNATURE)>>,
       <<"Memo", MEMO>>,
       <<"TransactionResult", JStr("tesSUCCESS")>>,
       <<"hash", JStr("00")>>,
       <<"NotAField", JStr("00")>>,
       <<"Signers", JArr>> >>

ObjectPool == {PoolSeq[i] : i \in 1..Len(PoolSeq)}

DistinctNames(o) == \A i, j \in 1..Len(o) : o[i][1] = o[j][1] => i = j

Objects == {o \in SeqsUpTo(ObjectPool, MaxFields) : DistinctNames(o)}

JsonValues == {JObj(o) : o \in Objects} \cup {JNum(1)}

InitObject ==
    /\ harness = "object"
    /\ pc = "input"
    /\ serializer = <<>>
    /\ parser = <<>>
    /\ \E value \in JsonValues, signing_only \in BOOLEAN :
         arg = [value |-> value, signing_only |-> signing_only]
    /\ calls = 0
    /\ last = NoCall

ObjectCall(op, res) ==
    /\ last' = Call(op, arg.signing_only, <<>>, res)
    /\ serializer' = res.bytes
    /\ pc' = IF res.kind = "panic" THEN "aborted" ELSE "done"
    /\ UNCHANGED <<harness, parser, arg, calls>>

TryFromValue ==
    /\ harness = "object"
    /\ pc = "input"
    /\ ObjectCall("try_from_value", STObjectTryFromValue(arg.value, arg.signing_only))

Encode ==
    /\ harness = "object"
    /\ pc = "input"
    /\ ~arg.signing_only
    /\ ObjectCall("encode", EncodeJson(arg.value))

EncodeForSigning ==
    /\ harness = "object"
    /\ pc = "input"
    /\ arg.signing_only
    /\ ObjectCall("encode_for_signing", EncodeForSigningJson(arg.value))

NextObject ==
    \/ TryFromValue
    \/ Encode
    \/ EncodeForSigning

SpecObject == InitObject /\ [][NextObject]_vars

(* ---- key pairs --------------------------------------------------------- *)

MESSAGE_32 == [i \in 1..KEY_BYTES |-> i]
Messages == {SIGNATURE_VERIFICATION_MESSAGE, TEST_MESSAGE, <<>>, MESSAGE_32}

\* Key pairs a caller holds without having derived them: an Ed25519 pair, a
\* secp256k1 pair (33-byte public key, private key after 00) and a key too
\* short to have a prefix.
GIVEN_SECRET == [i \in 1..KEY_BYTES |-> (5 * i) % 256]
GivenKeys ==
    { [public |-> EdFormatKey(EdPublicFromSecret(GIVEN_SECRET)),
       private |-> EdFormatKey(GIVEN_SECRET)],
      [public |-> SecpFormatKey(SecpPublicFromSecret(GIVEN_SECRET)),
       private |-> <<"0", "0">> \o SecpFormatKey(GIVEN_SECRET)],
      [public |-> <<"A">>, private |-> <<"A">>] }

InitKeypairs ==
    /\ harness = "keypairs"
    /\ pc = "start"
    /\ serializer = <<>>
    /\ parser = <<>>
    /\ \E seed \in SEEDS, validator \in BOOLEAN, message \in Messages,
          keys \in GivenKeys :
         arg = [seed |-> seed, validator |-> validator, message |-> message,
                public |-> keys.public, private |-> keys.private,
                signature |-> <<>>, derived |-> FALSE]
    /\ calls = 0
    /\ last = NoCall

KeypairsCall(op, in, res, ok_pc) ==
    /\ last' = Call(op, in, <<>>, res)
    /\ pc' = IF res.kind = "panic" THEN "aborted"
             ELSE IF res.kind = "err" THEN "failed"
             ELSE ok_pc
    /\ UNCHANGED <<harness, serializer, parser, calls>>

DeriveKeypair ==
    /\ harness = "keypairs"
    /\ pc = "start"
    /\ LET res == DeriveKeypairTop(arg.seed, arg.validator)
       IN  /\ KeypairsCall("derive_keypair", arg.seed, res, "derived")
           /\ arg' = IF res.kind = "ok"
                     THEN [arg EXCEPT !.public = res.public,
                                      !.private = res.private,
                                      !.derived = TRUE]
                     ELSE arg

Sign ==
    /\ harness = "keypairs"
    /\ pc \in {"start", "derived"}
    /\ LET res == SignTop(arg.message, arg.private)
       IN  /\ KeypairsCall("sign", arg.message, res, "signed")
           /\ arg' = IF res.kind = "ok"
                     THEN [arg EXCEPT !.signature = res.signature]
                     ELSE arg

\* The caller turns the hex of sign into the 64 bytes is_valid_message
\* takes.
IsValidMessage ==
    /\ harness = "keypairs"
    /\ pc = "signed"
    /\ HexDecodeChars(arg.signature).kind = "ok"
    /\ Len(HexDecodeChars(arg.signature).bytes) = 2 * KEY_BYTES
    /\ \E message \in Messages :
         /\ KeypairsCall("is_valid_message", message,
                         IsValidMessageTop(message,
                                           HexDecodeChars(arg.signature).bytes,
                                           arg.public),
                         "verified")
    /\ UNCHANGED arg

NextKeypairs ==
    \/ DeriveKeypair
    \/ Sign
    \/ IsValidMessage

SpecKeypairs == InitKeypairs /\ [][NextKeypairs]_vars

(* ---- issued-currency amounts ------------------------------------------- *)

\* "0", "0.00", "100", "100.00", "1", "0.5", "1234567.89",
\* "1.000000000000000" (15 places), "1.0000000000000000" (16 places),
\* "1" with 28 places, 10^17, "-1.000000000000000".
AmountValues ==
    { Dec(FALSE, 0, 0, 0), Dec(FALSE, 0, 0, 2),
      Dec(FALSE, 1, 2, 0), Dec(FALSE, 1, 4, 2),
      Dec(FALSE, 1, 0, 0), Dec(FALSE, 5, 0, 1),
      Dec(FALSE, 123456789, 0, 2),
      Dec(FALSE, 1, 15, 15), Dec(FALSE, 1, 16, 16),
      Dec(FALSE, 1, 28, 28), Dec(FALSE, 1, 17, 0),
      Dec(TRUE, 1, 15, 15) }

AmountCurrencies == {USD_CURRENCY, [i \in 1..20 |-> 0]}
AmountIssuers == {FIXTURE_ACCOUNT_ID, XADDRESS_ACCOUNT_ID}
Builds == {"debug", "release"}

\* Parser buffers: a first byte and a fill up to the length.
AmountFirstBytes == {0, 64, 128, 213}
AmountBufferLens == {0, 1, 7, 8, 9, 47, 48, 49, 50 + MaxAmountTail}
AmountBuffers ==
    {[i \in 1..n |-> IF i = 1 THEN b ELSE i % 256] :
        n \in AmountBufferLens, b \in AmountFirstBytes}

InitAmount ==
    /\ harness = "amount"
    /\ pc = "input"
    /\ serializer = <<>>
    /\ \E value \in AmountValues, currency \in AmountCurrencies,
          issuer \in AmountIssuers, build \in Builds :
         arg = [value |-> value, currency |-> currency, issuer |-> issuer,
                build |-> build]
    /\ parser \in AmountBuffers
    /\ calls = 0
    /\ last = NoCall

AmountCall(op, res) ==
    /\ last' = Call(op, arg.value, parser, res)
    /\ pc' = IF res.kind = "panic" THEN "aborted" ELSE "done"
    /\ UNCHANGED <<harness, serializer, arg, calls>>

SerializeIcValue ==
    /\ harness = "amount"
    /\ pc = "input"
    /\ AmountCall("_serialize_issued_currency_value",
                  SerializeIssuedCurrencyValue(arg.value, arg.build))
    /\ UNCHANGED parser

SerializeIcAmount ==
    /\ harness = "amount"
    /\ pc = "input"
    /\ AmountCall("_serialize_issued_currency_amount",
                  SerializeIssuedCurrencyAmount(arg, arg.build))
    /\ UNCHANGED parser

FromParser ==
    /\ harness = "amount"
    /\ pc = "input"
    /\ LET res == AmountFromParser(parser)
       IN  /\ AmountCall("Amount::from_parser", res)
           /\ parser' = res.rest

NextAmount ==
    \/ SerializeIcValue
    \/ SerializeIcAmount
    \/ FromParser

SpecAmount == InitAmount /\ [][NextAmount]_vars

(* ---- objects with X-addresses and explicit tags ------------------------ *)

TagPoolSeq ==
    << <<"Account", JStr(XADDRESS_TAG_1)>>,
       <<"Account", JStr(XADDRESS_NO_TAG)>>,
       <<"Destination", JStr(XADDRESS_TAG_1)>>,
       <<"Destination", JStr(FIXTURE_ACCOUNT)>>,
       <<"SourceTag", JNum(1)>>,
       <<"SourceTag", JNum(2)>>,
       <<"DestinationTag", JNum(1)>>,
       <<"DestinationTag", JNum(2)>>,
       <<"RegularKey", JStr(XADDRESS_TAG_1)>>,
       <<"RegularKey", JStr(XADDRESS_NO_TAG)>>,
       <<"NotAField", JStr(XADDRESS_TAG_1)>>,
       <<"Fee", JStr("10")>> >>

TagPool == {TagPoolSeq[i] : i \in 1..Len(TagPoolSeq)}

TagObjects == {o \in SeqsUpTo(TagPool, MaxFields) : DistinctNames(o)}

InitTags ==
    /\ harness = "object"
    /\ pc = "input"
    /\ serializer = <<>>
    /\ parser = <<>>
    /\ \E o \in TagObjects, signing_only \in BOOLEAN :
         arg = [value |-> JObj(o), signing_only |-> signing_only]
    /\ calls = 0
    /\ last = NoCall

SpecTags == InitTags /\ [][NextObject]_vars

(* ---- objects with type and result names -------------------------------- *)

NamePoolSeq ==
    << <<"TransactionType", JStr("OfferCreate")>>,
       <<"TransactionType", JStr("NoSuchName")>>,
       <<"TransactionType", JNum(7)>>,
       <<"TransactionResult", JStr("tecCLAIM")>>,
       <<"TransactionResult", JStr("NoSuchName")>>,
       <<"LedgerEntryType", JStr("AccountRoot")>>,
       <<"LedgerEntryType", JStr("Offer")>>,
       <<"LedgerEntryType", JStr("OfferCreate")>>,
       <<"LedgerEntryType", JStr("NoSuchName")>>,
       <<"Account", JStr(FIXTURE_ACCOUNT)>>,
       <<"Fee", JStr("10")>> >>

NamePool == {NamePoolSeq[i] : i \in 1..Len(NamePoolSeq)}

NameObjects == {o \in SeqsUpTo(NamePool, MaxFields) : DistinctNames(o)}

InitNames ==
    /\ harness = "object"
    /\ pc = "input"
    /\ serializer = <<>>
    /\ parser = <<>>
    /\ \E o \in NameObjects, signing_only \in BOOLEAN :
         arg = [value |-> JObj(o), signing_only |-> signing_only]
    /\ calls = 0
    /\ last = NoCall

SpecNames == InitNames /\ [][NextObject]_vars

(* ---- field headers ----------------------------------------------------- *)

\* The largest value of a code: read_uint8 gives a u8.
U8_MAX == 255
HeaderCodes == 1..U8_MAX
\* What follows the header in the parser: nothing, or the byte 0x12.
HeaderTails == {<<>>, <<18>>}

InitHeader ==
    /\ harness = "header"
    /\ pc = "new"
    /\ serializer = <<>>
    /\ parser = <<>>
    /\ \E type_code \in HeaderCodes, field_code \in HeaderCodes :
         \E tail \in HeaderTails :
            arg = [type_code |-> type_code, field_code |-> field_code,
                   tail |-> tail]
    /\ calls = 0
    /\ last = NoCall

\* The header of the field is written to the serializer.
WriteHeader ==
    /\ harness = "header"
    /\ pc = "new"
    /\ LET bytes == HeaderToBytes(arg.type_code, arg.field_code)
       IN  /\ last' = Call("to_bytes", <<arg.type_code, arg.field_code>>,
                           serializer, Ok(0, bytes))
           /\ serializer' = serializer \o bytes
    /\ pc' = "packed"
    /\ UNCHANGED <<harness, parser, arg, calls>>

\* BinaryParser::from over the written bytes and what follows them.
ParserFromHeader ==
    /\ harness = "header"
    /\ pc = "packed"
    /\ parser' = serializer \o arg.tail
    /\ pc' = "parsing"
    /\ UNCHANGED <<harness, serializer, arg, calls, last>>

ReadFieldHeader ==
    /\ harness = "header"
    /\ pc = "parsing"
    /\ LET res == ParserReadFieldHeader(parser)
       IN  /\ last' = Call("read_field_header", 0, parser, res)
           /\ parser' = res.rest
           /\ pc' = CASE res.kind = "ok" -> "read"
                      [] res.kind = "err" -> "failed"
                      [] OTHER -> "aborted"
    /\ UNCHANGED <<harness, serializer, arg, calls>>

NextHeader == WriteHeader \/ ParserFromHeader \/ ReadFieldHeader

SpecHeader == InitHeader /\ [][NextHeader]_vars

\* read_field_header on given bytes: first bytes with either nibble 0 or
\* none, and continuation bytes on both sides of 16.
HeaderByteSamples == {0, 1, 15, 16, 18, 255}
HeaderBuffers == SeqsUpTo(HeaderByteSamples, MaxParserLen)

InitHeaderBytes ==
    /\ harness = "header"
    /\ pc = "parsing"
    /\ serializer = <<>>
    /\ parser \in HeaderBuffers
    /\ arg = NoArg
    /\ calls = 0
    /\ last = NoCall

SpecHeaderBytes == InitHeaderBytes /\ [][ReadFieldHeader]_vars

(* ---- issues ------------------------------------------------------------ *)

NoEntry == <<>>
IssueCurrencyEntries ==
    { NoEntry, << <<"currency", JStr("XRP")>> >>, << <<"currency", JStr("USD")>> >>,
      << <<"currency", JStr("")>> >>, << <<"currency", JNum(1)>> >> }
IssueIssuerEntries ==
    { NoEntry, << <<"issuer", JStr(FIXTURE_ACCOUNT)>> >>,
      << <<"issuer", JStr(ACCOUNT_ZERO)>> >>,
      << <<"issuer", JStr("")>> >>, << <<"issuer", JNum(1)>> >> }
IssueValues ==
    {JObj(c \o i) : c \in IssueCurrencyEntries, i \in IssueIssuerEntries}
        \cup {JObj(i \o c) : c \in IssueCurrencyEntries, i \in IssueIssuerEntries}
        \cup {JStr("XRP"), JNum(1), JArr, JNull}
\* What follows the issue in the parser.
IssueTails == {<<>>, <<0>>, XRP_CURRENCY}

InitIssue ==
    /\ harness = "issue"
    /\ pc = "input"
    /\ serializer = <<>>
    /\ parser = <<>>
    /\ \E value \in IssueValues, tail \in IssueTails :
         arg = [value |-> value, tail |-> tail]
    /\ calls = 0
    /\ last = NoCall

IssueTryFrom ==
    /\ harness = "issue"
    /\ pc = "input"
    /\ LET res == IssueTryFromValue(arg.value)
       IN  /\ last' = Call("Issue::try_from", arg.value, <<>>, res)
           /\ serializer' = res.bytes
           /\ pc' = CASE res.kind = "ok" -> "built"
                      [] res.kind = "err" -> "failed"
                      [] OTHER -> "aborted"
    /\ UNCHANGED <<harness, parser, arg, calls>>

\* BinaryParser::from over the bytes of the issue and what follows them.
ParserFromIssue ==
    /\ harness = "issue"
    /\ pc = "built"
    /\ parser' = serializer \o arg.tail
    /\ pc' = "parsing"
    /\ UNCHANGED <<harness, serializer, arg, calls, last>>

IssueDecode ==
    /\ harness = "issue"
    /\ pc = "parsing"
    /\ LET res == IssueFromParser(parser)
       IN  /\ last' = Call("Issue::from_parser", 0, parser, res)
           /\ parser' = res.rest
           /\ pc' = CASE res.kind = "ok" -> "decoded"
                      [] res.kind = "err" -> "failed"
                      [] OTHER -> "aborted"
    /\ UNCHANGED <<harness, serializer, arg, calls>>

NextIssue == IssueTryFrom \/ ParserFromIssue \/ IssueDecode

SpecIssue == InitIssue /\ [][NextIssue]_vars

(* ---- XRP amounts and the queries on an Amount --------------------------- *)

XrpStrings ==
    {"0", "10", "1000000", "1234567", "100000000000000000",
     "1000000000000000000", "-1", "1.5", "0.5", "abc", ""}

\* Buffers of an Amount: none, one byte, 8 bytes of a native amount with
\* and without the sign bit, and 48 bytes of an issued-currency amount,
\* positive and negative.
XrpAmountBuffers ==
    { <<>>, <<64>>,
      <<64, 0, 0, 0, 0, 0, 0, 10>>,
      <<64, 1, 0, 0, 0, 0, 0, 0>>,
      <<0, 0, 0, 0, 0, 0, 0, 10>>,
      <<213, 67, 141, 126, 164, 198, 128, 0>> \o USD_CURRENCY \o FIXTURE_ACCOUNT_ID,
      <<149, 67, 141, 126, 164, 198, 128, 0>> \o USD_CURRENCY \o FIXTURE_ACCOUNT_ID,
      <<128, 0, 0, 0, 0, 0, 0, 0>> \o USD_CURRENCY \o FIXTURE_ACCOUNT_ID }

InitXrp ==
    /\ harness = "xrp"
    /\ pc = "input"
    /\ serializer = <<>>
    /\ parser = <<>>
    /\ \E value \in XrpStrings, buffer \in XrpAmountBuffers :
         arg = [value |-> value, buffer |-> buffer]
    /\ calls = 0
    /\ last = NoCall

SerializeXrp ==
    /\ harness = "xrp"
    /\ pc = "input"
    /\ last' = Call("_serialize_xrp_amount", arg.value, <<>>,
                    SerializeXrpAmount(arg.value))
    /\ pc' = "done"
    /\ UNCHANGED <<harness, serializer, parser, arg, calls>>

\* Amount::try_from(&str): the serializer variable holds the buffer of the
\* Amount that was built.
AmountTryFromStr ==
    /\ harness = "xrp"
    /\ pc = "input"
    /\ LET res == AmountFromStr(arg.value)
       IN  /\ last' = Call("Amount::try_from", arg.value, <<>>, res)
           /\ serializer' = res.bytes
           /\ pc' = IF res.kind = "ok" THEN "from_str" ELSE "failed"
    /\ UNCHANGED <<harness, parser, arg, calls>>

\* Amount::new(Some(buffer))
AmountNew ==
    /\ harness = "xrp"
    /\ pc = "input"
    /\ last' = Call("Amount::new", arg.buffer, <<>>, Ok(0, arg.buffer))
    /\ serializer' = arg.buffer
    /\ pc' = "from_buffer"
    /\ UNCHANGED <<harness, parser, arg, calls>>

AmountQuery(op, res) ==
    /\ harness = "xrp"
    /\ pc \in {"from_str", "from_buffer"}
    /\ calls < MaxOps
    /\ last' = Call(op, 0, serializer, res)
    /\ pc' = IF res.kind = "panic" THEN "aborted" ELSE pc
    /\ calls' = calls + 1
    /\ UNCHANGED <<harness, serializer, parser, arg>>

IsNative == AmountQuery("is_native", AmountIsNative(serializer))

IsPositive == AmountQuery("is_positive", AmountIsPositive(serializer))

NextXrp ==
    \/ SerializeXrp
    \/ AmountTryFromStr
    \/ AmountNew
    \/ IsNative
    \/ IsPositive

SpecXrp == InitXrp /\ [][NextXrp]_vars

(* ---- calls on a serializer --------------------------------------------- *)

\* A value of the test of write_field_and_value, the empty value and a
\* value whose length prefix takes two bytes.
SerValues == {<<>>, <<0, 17, 34>>, Fill(193, TestFill)}
SerFields ==
    {GetFieldInstance(name) :
        name \in {"TransactionType", "LastLedgerSequence", "Fee",
                  "SigningPubKey", "Account", "UNLModifyDisabling"}}

InitSerializer ==
    /\ harness = "serializer"
    /\ pc = "ready"
    /\ serializer = <<>>
    /\ parser = <<>>
    /\ arg = NoArg
    /\ calls = 0
    /\ last = NoCall

\* A call on the serializer: it keeps what the call wrote, and a panic ends
\* the run.
SerializerCall(op, in, res) ==
    /\ harness = "serializer"
    /\ pc = "ready"
    /\ calls < MaxOps
    /\ last' = Call(op, in, serializer, res)
    /\ serializer' = IF res.kind = "ok" THEN res.bytes ELSE serializer
    /\ pc' = IF res.kind = "ok" THEN "ready" ELSE "aborted"
    /\ calls' = calls + 1
    /\ UNCHANGED <<harness, parser, arg>>

AppendBytes ==
    \E bytes \in SerValues :
        SerializerCall("append", [value |-> bytes], SerAppend(serializer, bytes))

WriteLengthEncodedOnSerializer ==
    \E value \in SerValues, encode_value \in BOOLEAN :
        SerializerCall("write_length_encoded",
                       [value |-> value, encode_value |-> encode_value],
                       SerWriteLengthEncoded(serializer, value, encode_value))

WriteFieldAndValue ==
    \E field \in SerFields, value \in SerValues,
       is_unl_modify_workaround \in BOOLEAN :
        SerializerCall("write_field_and_value",
                       [field |-> field, value |-> value,
                        is_unl_modify_workaround |-> is_unl_modify_workaround],
                       SerWriteFieldAndValue(serializer, field, value,
                                             is_unl_modify_workaround))

NextSerializer == AppendBytes \/ WriteLengthEncodedOnSerializer \/ WriteFieldAndValue

SpecSerializer == InitSerializer /\ [][NextSerializer]_vars

----------------------------------------------------------------------------
(* Properties of the length prefix, the serializer and the parser.         *)

\* C1: for every content length L <= 918744, write_length_encoded(value,
\* true) into an empty serializer followed by read_length_prefix on a parser
\* over the result returns L, consumes exactly the 1, 2 or 3 prefix bytes
\* and leaves the L value bytes as the parser's remaining buffer.
LengthPrefixRoundTrip ==
    (harness = "roundtrip" /\ arg.encode_value /\ arg.length <= 918744) =>
        /\ pc # "aborted"
        /\ pc = "done" =>
            /\ last.res.kind = "ok"
            /\ last.res.val = arg.length
            /\ parser = arg.value
            /\ Len(last.before) - Len(parser) \in 1..3
            /\ Len(last.before) - Len(parser) = Len(serializer) - arg.length
            /\ last.before = serializer

LengthPrefixRoundTripWitness ==
    /\ harness = "roundtrip"
    /\ pc = "done"
    /\ arg.encode_value
    /\ arg.length = 12481
    /\ last.res.val = 12481
    /\ last.res.bytes = <<241, 0, 0>>
    /\ Len(parser) = 12481

\* The table of the specification, section 4.1.
PrefixTable(L) ==
    IF L <= 192 THEN <<L>>
    ELSE IF L <= 12480 THEN <<193 + ((L - 193) \div 256), (L - 193) % 256>>
    ELSE <<241 + ((L - 12481) \div 65536), ((L - 12481) \div 256) % 256,
           (L - 12481) % 256>>

\* C2: _encode_variable_length_prefix(L) equals the table for every L: one
\* byte for 0..192, two for 193..12480, three for 12481..918744, an error
\* above; 192 -> [192], 193 -> [193,0], 12480 -> [240,255],
\* 12481 -> [241,0,0], and 918745 is rejected.
EncodePrefixMatchesTable ==
    (harness = "prefix" /\ pc = "done") =>
        /\ last.op = "_encode_variable_length_prefix"
        /\ IF arg.length > 918744
           THEN last.res.kind = "err"
           ELSE last.res.kind = "ok" /\ last.res.bytes = PrefixTable(arg.length)
        /\ arg.length = 192 => last.res.bytes = <<192>>
        /\ arg.length = 193 => last.res.bytes = <<193, 0>>
        /\ arg.length = 12480 => last.res.bytes = <<240, 255>>
        /\ arg.length = 12481 => last.res.bytes = <<241, 0, 0>>
        /\ arg.length = 918745 => last.res.err = "InvalidVariableLengthTooLarge"

EncodePrefixMatchesTableWitness ==
    /\ harness = "prefix"
    /\ pc = "done"
    /\ arg.length = 12480
    /\ last.res.kind = "ok"
    /\ last.res.bytes = <<240, 255>>

\* C3: read_length_prefix on a buffer whose first byte is 255 fails with
\* UnexpectedLengthPrefixRange, whatever bytes follow; it returns no length.
FirstByte255IsRangeError ==
    (harness = "parser" /\ last.op = "read_length_prefix"
        /\ Len(last.before) >= 1 /\ last.before[1] = 255) =>
        /\ last.res.kind = "err"
        /\ last.res.err = "UnexpectedLengthPrefixRange"
        /\ last.res.val = -1

FirstByte255IsRangeErrorWitness ==
    /\ harness = "parser"
    /\ last.op = "read_length_prefix"
    /\ Len(last.before) = 3
    /\ last.before[1] = 255
    /\ last.res.kind = "err"

\* C4: skip_bytes(n) with r remaining bytes: if n <= r it succeeds and the
\* remaining buffer is the old one without its first n bytes; if n > r it
\* returns UnexpectedParserSkipOverflow and the buffer is unchanged.
SkipBytesContract ==
    (harness = "parser" /\ last.op = "skip_bytes") =>
        LET n == last.in
            r == Len(last.before)
        IN  IF n <= r
            THEN /\ last.res.kind = "ok"
                 /\ Len(parser) = r - n
                 /\ \A i \in 1..(r - n) : parser[i] = last.before[i + n]
            ELSE /\ last.res.kind = "err"
                 /\ last.res.err = "UnexpectedParserSkipOverflow"
                 /\ parser = last.before

SkipBytesContractWitness ==
    /\ harness = "parser"
    /\ last.op = "skip_bytes"
    /\ last.before = TEST_BYTES
    /\ last.in = 4
    /\ parser = <<68, 85, 102>>

\* C5: read(n) with r remaining bytes: if n <= r it returns the first n
\* bytes and advances by n; if n > r it fails with the overflow error
\* returned as a value (no abort) and the buffer is unchanged.
ReadContract ==
    (harness = "parser" /\ last.op = "read") =>
        LET n == last.in
            r == Len(last.before)
        IN  IF n <= r
            THEN /\ last.res.kind = "ok"
                 /\ Len(last.res.bytes) = n
                 /\ \A i \in 1..n : last.res.bytes[i] = last.before[i]
                 /\ Len(parser) = r - n
                 /\ \A i \in 1..(r - n) : parser[i] = last.before[i + n]
            ELSE /\ last.res.kind = "err"
                 /\ last.res.err = "UnexpectedParserSkipOverflow"
                 /\ parser = last.before


----------------------------------------------------------------------------
(* Properties of STObject::try_from_value, encode and encode_for_signing.  *)

ReturnedObject(op) ==
    /\ harness = "object"
    /\ pc = "done"
    /\ last.op = op
    /\ last.res.kind = "ok"

SegNames(segs) == {segs[i].name : i \in 1..Len(segs)}

\* The fields of the input object that the registry knows and serializes.
PresentSerialized(o) ==
    {f \in Registry : MapHas(o, f.name) /\ f.is_serialized}

\* The input object with its fields in the order of PoolSeq.
InPoolOrder(o) == SelectSeq(PoolSeq, LAMBDA e : \E i \in 1..Len(o) : o[i] = e)

\* C6: the bytes try_from_value produces depend on the set of (name, value)
\* pairs of the input only, not on their order: the fields written are in
\* strictly ascending order of ordinal, and each present, registered,
\* serialized field (of the signing subset under signing_only) is written
\* exactly once.
OutputIndependentOfInputOrder ==
    ReturnedObject("try_from_value") =>
        LET segs == last.res.segs
            o == arg.value.o
            expected == {f \in PresentSerialized(o) :
                            arg.signing_only => f.is_signing}
            reordered == STObjectTryFromValue(JObj(InPoolOrder(o)), arg.signing_only)
        IN  /\ \A i, j \in 1..Len(segs) :
                 i < j => GetFieldInstance(segs[i].name).ordinal
                            < GetFieldInstance(segs[j].name).ordinal
            /\ SegNames(segs) = {f.name : f \in expected}
            /\ Len(segs) = Cardinality(expected)
            /\ reordered.kind = "ok"
            /\ reordered.bytes = last.res.bytes

OutputIndependentOfInputOrderWitness ==
    /\ ReturnedObject("try_from_value")
    /\ ~arg.signing_only
    /\ arg.value.o = << <<"Account", JStr(FIXTURE_ACCOUNT)>>,
                        <<"Fee", JStr("10")>>,
                        <<"TransactionType", JStr("OfferCreate")>> >>
    /\ last.res.bytes = (<<18, 0, 7, 104, 64, 0, 0, 0, 0, 0, 0, 10, 129, 20>>
                           \o FIXTURE_ACCOUNT_ID)

\* The input object without the fields the registry marks as not signing.
WithoutNonSigning(o) ==
    SelectSeq(o, LAMBDA e : HasFieldInstance(e[1]) => GetFieldInstance(e[1]).is_signing)

IsUpperHex(hex) ==
    /\ Len(hex) % 2 = 0
    /\ \A i \in 1..Len(hex) : \E d \in 1..16 : HexDigits[d] = hex[i]

HexValue(c) == (CHOOSE d \in 1..16 : HexDigits[d] = c) - 1

FromUpperHex(hex) ==
    [i \in 1..(Len(hex) \div 2) |->
        HexValue(hex[2 * i - 1]) * 16 + HexValue(hex[2 * i])]

\* C8: encode_for_signing returns the uppercase hex of the bytes 53 54 58 00
\* followed by the bytes try_from_value gives for the signing subset;
\* encode returns the uppercase hex of the bytes try_from_value gives for
\* all serialized fields, with nothing before and nothing after.
EncodeIsUpperHexOfCanonicalBytes ==
    /\ ReturnedObject("encode_for_signing") =>
        /\ IsUpperHex(last.res.hex)
        /\ FromUpperHex(last.res.hex)
             = <<83, 84, 88, 0>> \o STObjectTryFromValue(arg.value, TRUE).bytes
        /\ SegNames(last.res.segs)
             = {f.name : f \in {g \in PresentSerialized(arg.value.o) : g.is_signing}}
    /\ ReturnedObject("encode") =>
        /\ IsUpperHex(last.res.hex)
        /\ FromUpperHex(last.res.hex) = STObjectTryFromValue(arg.value, FALSE).bytes
        /\ SegNames(last.res.segs)
             = {f.name : f \in PresentSerialized(arg.value.o)}

EncodeIsUpperHexOfCanonicalBytesWitness ==
    /\ ReturnedObject("encode_for_signing")
    /\ arg.value.o = << <<"TxnSignature", JStr(FIXTURE_TXN_SIGNATURE)>>,
                        <<"Fee", JStr("10")>>,
                        <<"TransactionType", JStr("OfferCreate")>> >>
    /\ last.res.hex = <<"5", "3", "5", "4", "5", "8", "0", "0",
                        "1", "2", "0", "0", "0", "7",
                        "6", "8", "4", "0", "0", "0", "0", "0", "0", "0",
                        "0", "0", "0", "0", "0", "0", "0", "A">>

RECURSIVE Flatten(_)
Flatten(seqs) == IF seqs = <<>> THEN <<>> ELSE Head(seqs) \o Flatten(Tail(seqs))

\* C9: try_from_value appends the byte 0xE1 right after what it wrote for a
\* field whose associated type is STObject, and after no other field; the
\* output is the fields' bytes one after the other, with no marker added
\* at the end of the top-level object.
EndMarkerAfterNestedObjectsOnly ==
    ReturnedObject("try_from_value") =>
        LET segs == last.res.segs
            expected_marker(seg) ==
                IF GetFieldInstance(seg.name).associated_type = "STObject"
                THEN <<225>> ELSE <<>>
        IN  /\ \A i \in 1..Len(segs) : segs[i].marker = expected_marker(segs[i])
            /\ last.res.bytes
                 = Flatten([i \in 1..Len(segs) |->
                              (segs[i].header \o segs[i].body) \o expected_marker(segs[i])])

EndMarkerAfterNestedObjectsOnlyWitness ==
    /\ ReturnedObject("try_from_value")
    /\ ~arg.signing_only
    /\ arg.value.o = << <<"TransactionResult", JStr("tesSUCCESS")>>,
                        <<"Memo", MEMO>>,
                        <<"Fee", JStr("10")>> >>
    /\ last.res.bytes = <<104, 64, 0, 0, 0, 0, 0, 0, 10,
                          234, 116, 1, 0, 124, 1, 0, 125, 2, 171, 205, 225,
                          3, 16, 0>>

\* C10: when TransactionType resolves to the UNLModify code 0x0066,
\* try_from_value writes Account as its header, a zero length prefix and no
\* value bytes; for every other transaction type it writes Account's length
\* prefix and value bytes; TransactionType is written before Account.
UnlModifyAccountWorkaround ==
    ReturnedObject("try_from_value") =>
        LET segs == last.res.segs
            is_unl_modify ==
                \E j \in 1..Len(segs) :
                    segs[j].name = "TransactionType" /\ segs[j].value = <<0, 102>>
        IN  \A i \in 1..Len(segs) :
                segs[i].name = "Account" =>
                    /\ \A j \in 1..Len(segs) : segs[j].name = "TransactionType" => j < i
                    /\ is_unl_modify => segs[i].body = <<0>>
                    /\ ~is_unl_modify =>
                         segs[i].body = <<Len(segs[i].value)>> \o segs[i].value

----------------------------------------------------------------------------
(* Properties of X-addresses and of type names in try_from_value.          *)

CalledTryFromValue ==
    /\ harness = "object"
    /\ pc # "input"
    /\ last.op = "try_from_value"

\* The object without the field `name`.
WithoutField(o, name) == SelectSeq(o, LAMBDA e : e[1] # name)

\* No other field than `name` makes the first loop of try_from_value fail.
OthersHandled(o, name) == HandleFields(WithoutField(o, name), 1, <<>>).kind = "ok"

\* The object with the X-address of `field` replaced by its classic address
\* and the tag of the X-address given as `tag_name`.
WithClassicAndTag(o, field, tag_name) ==
    LET decoded == XAddressToClassicAddress(MapGet(o, field).s)
    IN  MapInsert(MapInsert(o, field, JStr(decoded.classic_address)),
                  tag_name, JNum(decoded.tag))

SegValue(segs, name) ==
    segs[CHOOSE i \in 1..Len(segs) : segs[i].name = name].value

TaggedXAddressContract(field, tag_name, mismatch) ==
    LET o == arg.value.o
        res == last.res
    IN  (/\ CalledTryFromValue
         /\ MapHas(o, field)
         /\ MapGet(o, field) = JStr(XADDRESS_TAG_1)
         /\ OthersHandled(o, field)) =>
            IF MapHas(o, tag_name) /\ MapGet(o, tag_name) # JNum(1)
            THEN /\ res.kind = "err"
                 /\ res.err = mismatch
                 /\ res.bytes = <<>>
                 /\ serializer = <<>>
            ELSE /\ res.kind = "ok"
                 /\ res.bytes
                      = STObjectTryFromValue(JObj(WithClassicAndTag(o, field, tag_name)),
                                             arg.signing_only).bytes
                 /\ {field, tag_name} \subseteq SegNames(res.segs)
                 /\ SegValue(res.segs, field) = XADDRESS_ACCOUNT_ID
                 /\ SegValue(res.segs, tag_name) = <<0, 0, 0, 1>>

\* C11: an Account (Destination) that is an X-address with a tag, in an
\* object whose explicit SourceTag (DestinationTag) differs from that tag,
\* makes try_from_value fail with AccountMismatchingTags
\* (DestinationMismatchingTags) and no bytes; with the explicit tag absent
\* or equal, the classic address and the tag are both serialized.
XAddressTagsMergedOrMismatch ==
    /\ TaggedXAddressContract("Account", "SourceTag", "AccountMismatchingTags")
    /\ TaggedXAddressContract("Destination", "DestinationTag",
                              "DestinationMismatchingTags")

XAddressTagsMergedOrMismatchWitness ==
    /\ CalledTryFromValue
    /\ arg.value.o = << <<"SourceTag", JNum(2)>>,
                        <<"Account", JStr(XADDRESS_TAG_1)>> >>
    /\ last.res.kind = "err"
    /\ last.res.err = "AccountMismatchingTags"

OtherFieldXAddress(field) ==
    /\ CalledTryFromValue
    /\ field \notin {ACCOUNT, DESTINATION}
    /\ MapHas(arg.value.o, field)
    /\ MapGet(arg.value.o, field).kind = "str"
    /\ IsValidXAddress(MapGet(arg.value.o, field).s)
    /\ OthersHandled(arg.value.o, field)

TagFields == {TagPoolSeq[i][1] : i \in 1..Len(TagPoolSeq)}

MatchingTableCode(field, name) ==
    CASE field = "TransactionType" -> GetTransactionTypeCode(name)
      [] field = "TransactionResult" -> GetTransactionResultCode(name)
      [] field = "LedgerEntryType" -> GetLedgerEntryTypeCode(name)

UnknownNameError(field) ==
    CASE field = "TransactionType" -> "UnknownTransactionType"
      [] field = "TransactionResult" -> "UnknownTransactionResult"
      [] field = "LedgerEntryType" -> "UnknownLedgerEntryType"

\* C13: a string value of TransactionType, TransactionResult or
\* LedgerEntryType is replaced by the code of that name in the matching
\* table (transaction types, transaction results, ledger entry types); a
\* name missing from the matching table fails with UnknownTransactionType,
\* UnknownTransactionResult or UnknownLedgerEntryType; a valid ledger entry
\* type name is never rejected or mapped through the transaction type table.
NamesResolvedThroughMatchingTable ==
    \A field \in {"TransactionType", "TransactionResult", "LedgerEntryType"} :
        (/\ CalledTryFromValue
         /\ MapHas(arg.value.o, field)
         /\ MapGet(arg.value.o, field).kind = "str"
         /\ OthersHandled(arg.value.o, field)) =>
            LET code == MatchingTableCode(field, MapGet(arg.value.o, field).s)
                width == GetFieldInstance(field).associated_type
            IN  IF code.found
                THEN /\ last.res.kind = "ok"
                     /\ field \in SegNames(last.res.segs)
                     /\ SegValue(last.res.segs, field)
                          = ToBeBytes(code.code, IF width = "UInt8" THEN 1 ELSE 2)
                ELSE /\ last.res.kind = "err"
                     /\ last.res.err = UnknownNameError(field)
                     /\ last.res.bytes = <<>>

----------------------------------------------------------------------------
(* Properties of amounts.                                                  *)

AmountCalled(op) == harness = "amount" /\ pc # "input" /\ last.op = op

\* C14: the issued-currency value "0" encodes to the 8 value bytes
\* 80 00 00 00 00 00 00 00 for every currency and issuer, followed by the
\* 20 bytes of the currency and the 20 bytes of the issuer.
ZeroAmountIsCanonical ==
    (AmountCalled("_serialize_issued_currency_amount") /\ DecIsZero(arg.value)) =>
        /\ last.res.kind = "ok"
        /\ last.res.bytes
             = (<<128, 0, 0, 0, 0, 0, 0, 0>> \o arg.currency) \o arg.issuer

\* Two decimals denote the same number.
SameNumber(d1, d2) ==
    \/ DecIsZero(d1) /\ DecIsZero(d2)
    \/ /\ ~DecIsZero(d1)
       /\ ~DecIsZero(d2)
       /\ d1.negative = d2.negative
       /\ StripZeros(d1.coef) = StripZeros(d2.coef)
       /\ (d1.zeros + TrailingZeros(d1.coef)) - d1.scale
            = (d2.zeros + TrailingZeros(d2.coef)) - d2.scale

\* C15: two decimal strings denoting the same number, such as "100" and
\* "100.00", have the same issued-currency value encoding: the value
\* function gives both the same result.
SameNumberSameEncoding ==
    AmountCalled("_serialize_issued_currency_value") =>
        \A other \in AmountValues :
            SameNumber(arg.value, other) =>
                SerializeIssuedCurrencyValue(other, arg.build) = last.res

\* C16: Amount::from_parser consumes exactly 8 bytes when the first
\* remaining byte has its high bit clear and exactly 48 bytes when it has
\* its high bit set, for every buffer long enough.
AmountFromParserLength ==
    (AmountCalled("Amount::from_parser") /\ Len(last.before) > 0) =>
        LET expected == IF last.before[1] >= 128 THEN 48 ELSE 8
        IN  Len(last.before) >= expected =>
                /\ last.res.kind = "ok"
                /\ Len(last.res.bytes) = expected
                /\ Len(parser) = Len(last.before) - expected

----------------------------------------------------------------------------
(* Properties of key pairs.                                                *)

\* C17: for every seed for which derive_keypair(seed, false) returns
\* (public, private) and every message M, is_valid_message(M, sign(M,
\* private), public) is true; derive_keypair returns a key pair only if
\* signing and verifying the fixed verification message with it succeeds.
DerivedKeypairSignsAndVerifies ==
    /\ (/\ harness = "keypairs"
        /\ arg.derived
        /\ ~arg.validator
        /\ last.op = "sign") =>
            /\ last.res.kind = "ok"
            /\ pc = "signed"
    /\ (/\ harness = "keypairs"
        /\ arg.derived
        /\ ~arg.validator
        /\ last.op = "is_valid_message"
        /\ last.in = arg.message) =>
            /\ last.res.kind = "ok"
            /\ last.res.valid
    /\ (/\ harness = "keypairs"
        /\ last.op = "derive_keypair"
        /\ last.res.kind = "ok") =>
            LET signature == SignTop(SIGNATURE_VERIFICATION_MESSAGE, last.res.private)
            IN  /\ signature.kind = "ok"
                /\ IsValidMessageTop(SIGNATURE_VERIFICATION_MESSAGE,
                                     HexDecodeChars(signature.signature).bytes,
                                     last.res.public).valid

DerivedKeypairSignsAndVerifiesWitness ==
    /\ harness = "keypairs"
    /\ pc = "verified"
    /\ arg.derived
    /\ ~arg.validator
    /\ arg.seed = "sEdSeedC"
    /\ arg.message = TEST_MESSAGE
    /\ last.in = arg.message
    /\ last.res.valid

\* C18: sign and is_valid_message pick the algorithm from the key's prefix:
\* a key beginning with the Ed25519 prefix is handled by the Ed25519
\* implementation and every other key by the secp256k1 implementation;
\* derive_keypair uses the secp256k1 implementation for a seed whose
\* decoded algorithm is SECP256K1.
AlgorithmFromKeyPrefix ==
    /\ (/\ harness = "keypairs"
        /\ last.op \in {"sign", "is_valid_message"}
        /\ last.res.kind # "panic") =>
            LET key == IF last.op = "sign" THEN arg.private ELSE arg.public
            IN  last.res.engine
                  = IF Take(key, 2) = ED25519_PREFIX THEN "Ed25519" ELSE "Secp256k1"
    /\ (/\ harness = "keypairs"
        /\ last.op = "derive_keypair"
        /\ DecodeSeed(arg.seed).kind = "ok") =>
            last.res.engine
              = IF DecodeSeed(arg.seed).algorithm = "SECP256K1"
                THEN "Secp256k1" ELSE "Ed25519"



\* C19: no failure of the codec aborts the process: encode and
\* encode_for_signing return an error value, not a panic, when the
\* transaction cannot be serialized (unknown type name, invalid amount,
\* array-valued field), and write_length_encoded does not abort on a value
\* longer than 918744 bytes.
CodecFailuresAreErrorValues ==
    /\ (/\ harness = "object"
        /\ pc # "input"
        /\ arg.value.kind = "obj"
        /\ last.op \in {"encode", "encode_for_signing"}) =>
            last.res.kind \in {"ok", "err"}
    /\ (/\ harness = "roundtrip"
        /\ last.op = "write_length_encoded") =>
            last.res.kind \in {"ok", "err"}

HeaderRead == harness = "header" /\ pc \notin {"new", "packed", "parsing"}

\* C20: for every type code and field code in 1..255, the header packed by
\* the packing rule is read back by read_field_header as the same two
\* codes, and the read consumes exactly the 1, 2 or 3 bytes of the header;
\* (1, 2) packs to the single byte 0x12 and (20, 3) to two bytes, the first
\* with low nibble 3 and the second 20.
FieldHeaderRoundTrips ==
    /\ HeaderRead =>
        /\ last.op = "read_field_header"
        /\ last.res.kind = "ok"
        /\ last.res.type_code = arg.type_code
        /\ last.res.field_code = arg.field_code
        /\ Len(serializer) \in 1..3
        /\ last.before = serializer \o arg.tail
        /\ parser = arg.tail
    /\ (harness = "header" /\ pc # "new") =>
        /\ (arg.type_code = 1 /\ arg.field_code = 2) => serializer = <<18>>
        /\ (arg.type_code = 20 /\ arg.field_code = 3) =>
                /\ Len(serializer) = 2
                /\ serializer[1] % 16 = 3
                /\ serializer[2] = 20

FieldHeaderRoundTripsWitness ==
    /\ HeaderRead
    /\ pc = "read"
    /\ arg.type_code = 20
    /\ arg.field_code = 3
    /\ arg.tail = <<18>>
    /\ serializer = <<3, 20>>
    /\ last.res.type_code = 20
    /\ last.res.field_code = 3
    /\ parser = <<18>>



IsSuffix(s, t) == Len(s) <= Len(t) /\ s = Drop(t, Len(t) - Len(s))

\* C21: every parser operation, whether it succeeds or fails, leaves the
\* parser with a suffix of the bytes it had before, so after any sequence of
\* operations the remaining bytes are a suffix of the bytes the parser was
\* created from; peek and is_end leave the remaining bytes unchanged.
ParserOnlyConsumes ==
    [][harness = "parser" =>
        /\ IsSuffix(parser', parser)
        /\ last'.before = parser
        /\ last'.op \in {"peek", "is_end"} => parser' = parser]_vars

ParserOnlyConsumesWitness ==
    /\ harness = "parser"
    /\ calls = 2
    /\ last.op = "read_field_header"
    /\ last.res.kind = "err"
    /\ last.before = <<0, 0, 17>>
    /\ parser = <<17>>



IsPrefix(s, t) == Len(s) <= Len(t) /\ s = Take(t, Len(s))

\* C22: every call of append, write_length_encoded and write_field_and_value
\* leaves the previous contents of the serializer as a prefix of its new
\* contents: bytes already written are never rewritten or dropped.
SerializerOnlyGrowsAtEnd ==
    [][harness = "serializer" =>
        /\ IsPrefix(serializer, serializer')
        /\ last'.before = serializer]_vars

SerializerOnlyGrowsAtEndWitness ==
    /\ harness = "serializer"
    /\ calls = 2
    /\ last.op = "write_field_and_value"
    /\ last.before = <<0, 17, 34>>
    /\ Len(serializer) > 3
    /\ Take(serializer, 3) = <<0, 17, 34>>

SerWritten == Drop(serializer, Len(last.before))

\* C24: write_field_and_value appends the header of the field and then the
\* value bytes unchanged when the field is not variable-length-encoded; the
\* length prefix of the value and the value when it is and the workaround
\* flag is false; the single byte 0 and no value bytes when it is and the
\* workaround flag is true.
WriteFieldAndValueContract ==
    (harness = "serializer" /\ last.op = "write_field_and_value") =>
        LET field == last.in.field
            value == last.in.value
            header == HeaderToBytes(field.type_code, field.field_code)
            body == Drop(SerWritten, Len(header))
        IN  /\ last.res.kind = "ok"
            /\ IsPrefix(last.before, serializer)
            /\ IsPrefix(header, SerWritten)
            /\ ~field.is_vl_encoded => body = value
            /\ (field.is_vl_encoded /\ ~last.in.is_unl_modify_workaround) =>
                    body = EncodeVariableLengthPrefix(Len(value)).bytes \o value
            /\ (field.is_vl_encoded /\ last.in.is_unl_modify_workaround) =>
                    body = <<0>>

WriteFieldAndValueContractWitness ==
    /\ harness = "serializer"
    /\ last.op = "write_field_and_value"
    /\ last.in.field.name = "Account"
    /\ last.in.is_unl_modify_workaround
    /\ last.in.value = <<0, 17, 34>>
    /\ last.before = <<>>
    /\ serializer = <<129, 0>>



\* C23: read_field_header returns a range error whenever a continuation
\* byte, read because the type nibble or the field nibble of the first byte
\* is 0, is below 16 (0 included); otherwise it returns the two codes, and
\* with both nibbles 0 the type's byte comes before the field's byte.
ContinuationBelow16IsRangeError ==
    (/\ harness = "header"
     /\ last.op = "read_field_header"
     /\ arg = NoArg
     /\ last.before # <<>>) =>
        LET b == last.before
            type_nibble == b[1] \div 16
            field_nibble == b[1] % 16
            field_at == IF type_nibble = 0 THEN 3 ELSE 2
            header_len == 1 + (IF type_nibble = 0 THEN 1 ELSE 0)
                            + (IF field_nibble = 0 THEN 1 ELSE 0)
            type_low == type_nibble = 0 /\ Len(b) >= 2 /\ b[2] < 16
            field_low == field_nibble = 0 /\ Len(b) >= field_at /\ b[field_at] < 16
        IN  /\ type_low =>
                /\ last.res.kind = "err"
                /\ last.res.err = "UnexpectedTypeCodeRange"
            /\ (~type_low /\ field_low) =>
                /\ last.res.kind = "err"
                /\ last.res.err = "UnexpectedFieldCodeRange"
            /\ (~type_low /\ ~field_low /\ Len(b) >= header_len) =>
                /\ last.res.kind = "ok"
                /\ last.res.type_code = IF type_nibble = 0 THEN b[2] ELSE type_nibble
                /\ last.res.field_code
                     = IF field_nibble = 0 THEN b[field_at] ELSE field_nibble
                /\ parser = Drop(b, header_len)

ContinuationBelow16IsRangeErrorWitness ==
    /\ harness = "header"
    /\ arg = NoArg
    /\ last.op = "read_field_header"
    /\ last.before = <<0, 16, 15>>
    /\ last.res.kind = "err"
    /\ last.res.err = "UnexpectedFieldCodeRange"
    /\ pc = "failed"



\* The 8-byte word of a value coef * 10^(zeros - scale) with a coefficient
\* of at most 16 digits: the mantissa is the coefficient padded to 16
\* digits and the exponent is what the padding leaves.
MantissaPad(d) == 16 - NumDigits(d.coef)
NormalExponent(d) == (d.zeros - d.scale) - MantissaPad(d)
ExpectedIcWord(d) ==
    LET mantissa == Reverse(MantissaLE(d.coef, MantissaPad(d)))
        biased == NormalExponent(d) + 97
    IN  [i \in 1..8 |->
            IF i = 1
            THEN (128 + (IF d.negative THEN 0 ELSE 64)) + (biased \div 4)
            ELSE IF i = 2 THEN ((biased % 4) * 64) + mantissa[2]
            ELSE mantissa[i]]

\* C25: for every non-zero issued-currency value that can be represented
\* the encoder gives 48 bytes: the 8-byte word with the not-XRP bit, the
\* sign bit set iff the value is positive, the exponent + 97 in 8 bits with
\* the exponent in -96..80 and the 54-bit mantissa in 10^15..10^16 - 1 with
\* mantissa * 10^exponent the absolute value; then the 20 bytes of the
\* currency and the 20 bytes of the issuer.
IssuedCurrencyAmountLayout ==
    (/\ AmountCalled("_serialize_issued_currency_amount")
     /\ ~DecIsZero(arg.value)
     /\ VerifyValidIcValue(arg.value).kind = "ok") =>
        /\ last.res.kind = "ok"
        /\ Len(last.res.bytes) = 48
        /\ NormalExponent(arg.value) \in MIN_IOU_EXPONENT..MAX_IOU_EXPONENT
        /\ Take(last.res.bytes, 8) = ExpectedIcWord(arg.value)
        /\ Take(Drop(last.res.bytes, 8), 20) = arg.currency
        /\ Drop(last.res.bytes, 28) = arg.issuer

\* C26: normalizing an issued-currency value ends for every input without
\* the exponent counter going below 0 or wrapping, and a value whose
\* mantissa is still above 10^16 - 1 with the exponent at its maximum is
\* refused with UnexpectedICAmountOverflow.
NormalizationNeverWraps ==
    (/\ AmountCalled("_serialize_issued_currency_value")
     /\ ~DecIsZero(arg.value)
     /\ VerifyValidIcValue(arg.value).kind = "ok") =>
        LET up == ScaleUp(arg.value.coef, arg.value.zeros, arg.value.scale,
                          arg.build)
        IN  /\ last.res.kind \in {"ok", "err"}
            /\ up.kind = "ok"
            /\ up.exp >= 0
            /\ ScaleDown(up.coef, up.zeros, up.exp).kind = "err" =>
                    /\ last.res.kind = "err"
                    /\ last.res.err = "UnexpectedICAmountOverflow"



IssueCurrencyIs(name) ==
    /\ arg.value.kind = "obj"
    /\ MapHas(arg.value.o, "currency")
    /\ MapGet(arg.value.o, "currency") = JStr(name)

\* C29: an issue of the currency XRP is encoded as the 20 bytes of the
\* currency alone, an issue of another currency as the 20 bytes of the
\* currency followed by the 20 bytes of the issuer; decoding takes 20 bytes
\* when the currency decodes to XRP and 40 bytes otherwise, so decoding
\* the encoded bytes returns the same bytes and leaves what followed them.
IssueRoundTrips ==
    /\ (harness = "issue" /\ pc \in {"built", "parsing"}) =>
        /\ IssueCurrencyIs("XRP") => serializer = XRP_CURRENCY
        /\ ~IssueCurrencyIs("XRP") =>
            /\ Len(serializer) = 40
            /\ Take(serializer, 20)
                 = CurrencyFromStr(MapGet(arg.value.o, "currency").s).bytes
            /\ Drop(serializer, 20)
                 = AccountIdFromStr(MapGet(arg.value.o, "issuer").s).bytes
    /\ (harness = "issue" /\ last.op = "Issue::from_parser") =>
        /\ pc = "decoded"
        /\ last.res.bytes = serializer
        /\ parser = arg.tail
        /\ Len(last.before) - Len(parser)
             = IF CurrencyToString(Take(last.before, 20)) = "XRP" THEN 20 ELSE 40

IssueRoundTripsWitness ==
    /\ harness = "issue"
    /\ pc = "decoded"
    /\ IssueCurrencyIs("USD")
    /\ arg.tail = <<>>
    /\ Len(last.res.bytes) = 40
    /\ Take(last.res.bytes, 20) = USD_CURRENCY
    /\ Drop(last.res.bytes, 20) = FIXTURE_ACCOUNT_ID
    /\ parser = <<>>

LacksString(value, key) ==
    /\ value.kind = "obj"
    /\ ~MapHas(value.o, key) \/ MapGet(value.o, key).kind # "str"

\* C30: building an Issue from an object without a string under "currency"
\* or, for a currency other than XRP, under "issuer" returns the
\* MissingField error naming the key, and building it from a value that is
\* no object returns UnexpectedJSONType; neither aborts or gives bytes.
IssueMissingFieldIsError ==
    (harness = "issue" /\ last.op = "Issue::try_from" /\ pc # "input") =>
        /\ LacksString(arg.value, "currency") =>
            /\ last.res.kind = "err"
            /\ last.res.err = "MissingField(currency)"
        /\ (/\ IssueCurrencyIs("USD")
            /\ LacksString(arg.value, "issuer")) =>
            /\ last.res.kind = "err"
            /\ last.res.err = "MissingField(issuer)"
        /\ arg.value.kind # "obj" =>
            /\ last.res.kind = "err"
            /\ last.res.err = "UnexpectedJSONType"



XrpEncoded ==
    /\ harness = "xrp"
    /\ last.op \in {"_serialize_xrp_amount", "Amount::try_from"}

WholeDropsInBounds(d) ==
    /\ d.parsed
    /\ d.coef = 0 \/ (~d.negative /\ d.scale = 0)
    /\ \/ MantissaDigits(d.coef, d.zeros) < 18
       \/ (MantissaDigits(d.coef, d.zeros) = 18 /\ d.coef = 1)

\* C27: encoding an XRP amount from a string succeeds only for a whole,
\* non-negative number of drops within the bounds, and gives the 8
\* big-endian bytes of the drops with the bit 0x40 of the first byte set
\* and its top bit clear; a negative, fractional or unparsable string gives
\* an error.
XrpAmountEncoding ==
    XrpEncoded =>
        LET d == ParseDecimal(arg.value)
            drops == Reverse(MantissaLE(d.coef, d.zeros))
        IN  /\ last.res.kind \in {"ok", "err"}
            /\ last.res.kind = "ok" <=> WholeDropsInBounds(d)
            /\ last.res.kind = "ok" =>
                /\ Len(last.res.bytes) = 8
                /\ last.res.bytes[1] = drops[1] + 64
                /\ last.res.bytes[1] < 128
                /\ Tail(last.res.bytes) = Tail(drops)
            /\ last.res.kind = "err" => last.res.bytes = <<>>

XrpAmountEncodingWitness ==
    /\ XrpEncoded
    /\ last.op = "Amount::try_from"
    /\ arg.value = "1234567"
    /\ last.res.kind = "ok"
    /\ serializer = <<64, 0, 0, 0, 0, 18, 214, 135>>

\* C28: is_native and is_positive agree with the encoders: an Amount built
\* from a valid XRP string is native and positive, an Amount holding an
\* issued currency (not-XRP bit set) is not native, and is_positive is true
\* exactly when the second-highest bit of the first byte is set.
AmountQueriesAgreeWithEncoders ==
    (/\ harness = "xrp"
     /\ last.op \in {"is_native", "is_positive"}
     /\ last.res.kind = "ok") =>
        /\ (pc = "from_str" /\ last.op = "is_native") => last.res.val = 1
        /\ (pc = "from_str" /\ last.op = "is_positive") => last.res.val = 1
        /\ (last.op = "is_native" /\ last.before[1] >= 128) => last.res.val = 0
        /\ last.op = "is_positive" =>
                (last.res.val = 1 <=> (last.before[1] \div 64) % 2 = 1)


=========================================================================
